---------------------------- MODULE Spec2Model ----------------------------
(***************************************************************************)
(* A model of the two hooks of use-container-rect / use-drag-resize        *)
(* (src/unnamed/part_003): the Rect Tracker (useContainerRect) and the     *)
(* Drag-Resize Controller (useDragResize), each together with the browser  *)
(* state it acts on (registered event listeners, pending animation frames, *)
(* pointer captures).                                                      *)
(*                                                                         *)
(* Numbers.  JavaScript numbers are modelled as integers counting          *)
(* 1/Unit of a pixel; every input of the model lies on the quarter-pixel   *)
(* grid, so that all the arithmetic of the hooks (sums, clamps, the 16:9   *)
(* aspect product, the grid-snap quotient) is exact.                       *)
(*                                                                         *)
(* Optional values (undefined / null) are <<>>, a present value v is <<v>>.*)
(***************************************************************************)
EXTENDS Integers, Sequences, FiniteSets, TLC

VARIABLES
    params,     \* the Params object useDragResize was called with
    handles,    \* the resize handles the owner has rendered
    drag,       \* the state of one useDragResize instance and of its browser
    dragOp,     \* the last operation on the controller (observation)
    options,    \* the Options object useContainerRect was called with
    layout,     \* the browser's layout: the bounding geometry of each element
    tracker,    \* the state of one useContainerRect instance and of its browser
    trackOp,    \* the last operation on the tracker (observation)
    throttleOptions, \* the delay and the options useThrottle was called with
    throttle,   \* the state of one useThrottle instance, its timers and clock
    throttleOp  \* the last operation on the throttle (observation)

dragVars == <<params, handles, drag, dragOp>>

rectVars == <<options, layout, tracker, trackOp>>

throttleVars == <<throttleOptions, throttle, throttleOp>>

vars == <<params, handles, drag, dragOp, options, layout, tracker, trackOp,
          throttleOptions, throttle, throttleOp>>

(***************************************************************************)
(* Numbers                                                                 *)
(***************************************************************************)
Unit == 64

Px(n) == n * Unit

\* a quarter of a pixel
Quarter == Unit \div 4

Min(a, b) == IF a <= b THEN a ELSE b

Max(a, b) == IF a >= b THEN a ELSE b

\* Math.round of v, in whole pixels: the nearest integer, a tie going up
MathRound(v) == (2 * v + Unit) \div (2 * Unit)

\* Math.round(a / b) for b > 0
RoundQuot(a, b) == (2 * a + b) \div (2 * b)

None == <<>>

Some(v) == <<v>>

IsSome(o) == o # <<>>

Val(o) == o[1]

\* o ?? d
OrElse(o, d) == IF IsSome(o) THEN Val(o) ELSE d

(***************************************************************************)
(* useDragResize: the helpers of the constraint pipeline                   *)
(***************************************************************************)
\* clamp(v, lo, hi) with hi a number
\* clamp with the upper bound left out
clampNum_NoUpper(v, lo, hi) == Max(lo, v)

clampNum(v, lo, hi) == Min(hi, Max(lo, v))

\* clamp(v, lo, hi) where hi is an optional bound, <<>> standing for
\* Number.POSITIVE_INFINITY
clamp(v, lo, hi) == IF IsSome(hi) THEN clampNum(v, lo, Val(hi)) ELSE Max(lo, v)

hasAspect == IsSome(params.contentWidth) /\ IsSome(params.contentHeight)

\* width * aspect, aspect = contentHeight / contentWidth (1 when not locked)
timesAspect(w) ==
    IF hasAspect THEN (w * Val(params.contentHeight)) \div Val(params.contentWidth)
    ELSE w

\* snapWidth with gridPercent used as given, not clamped to [1, 100]
snapWidth_RawPercent(proposed, boundaryWidth) ==
    LET pct  == params.gridPercent
        step == (pct * boundaryWidth) \div 100
    IN  IF pct = 100 THEN proposed
        ELSE IF step <= 0 THEN proposed
        ELSE RoundQuot(proposed, step) * step

\* snapWidth rounding down to the grid step below instead of to the nearest
snapWidth_Floor(proposed, boundaryWidth) ==
    LET pct  == clampNum(params.gridPercent, 1, 100)
        step == (pct * boundaryWidth) \div 100
    IN  IF pct = 100 THEN proposed
        ELSE IF step <= 0 THEN proposed
        ELSE (proposed \div step) * step

snapWidth(proposed, boundaryWidth) ==
    LET pct  == clampNum(params.gridPercent, 1, 100)
        step == (pct * boundaryWidth) \div 100
    IN  IF pct = 100 THEN proposed
        ELSE IF step <= 0 THEN proposed
        ELSE RoundQuot(proposed, step) * step

\* constrainWH with a free height raised to minHeight only
constrainWH_FreeHeight(S, width) ==
    LET clampedW == clampNum(width, params.minWidth, params.maxWidth)
    IN  [width  |-> clampedW,
         height |-> IF hasAspect
                    THEN clamp(timesAspect(clampedW), params.minHeight, params.maxHeight)
                    ELSE Max(S.dimsRef.height, params.minHeight)]

\* constrainWH deriving the locked height from the unclamped width
constrainWH_RawWidth(S, width) ==
    LET clampedW == clampNum(width, params.minWidth, params.maxWidth)
        height   == IF hasAspect THEN timesAspect(width)
                    ELSE Max(S.dimsRef.height, params.minHeight)
    IN  [width |-> clampedW, height |-> clamp(height, params.minHeight, params.maxHeight)]

\* constrainWH with a free height that is reset to minHeight instead of kept
constrainWH_ResetHeight(S, width) ==
    LET clampedW == clampNum(width, params.minWidth, params.maxWidth)
        height   == IF hasAspect THEN timesAspect(clampedW)
                    ELSE params.minHeight
        clampedH == clamp(height, params.minHeight, params.maxHeight)
    IN  [width |-> clampedW, height |-> clampedH]

\* constrainWH(width), reading dimsRef.current.height
constrainWH(S, width) ==
    LET clampedW == clampNum(width, params.minWidth, params.maxWidth)
        height   == IF hasAspect THEN timesAspect(clampedW)
                    ELSE Max(S.dimsRef.height, params.minHeight)
        clampedH == clamp(height, params.minHeight, params.maxHeight)
    IN  [width |-> clampedW, height |-> clampedH]


(***************************************************************************)
(* useDragResize: the browser                                              *)
(*                                                                         *)
(* drag.listeners[t] is the event-listener list of handle element t, in    *)
(* registration order.  A listener is the closure that initiateResize      *)
(* created: its type, the values it captured, and an id standing for the   *)
(* identity of the function object (removeEventListener removes by         *)
(* identity).  drag.frames is the list of animation-frame callbacks the    *)
(* controller has requested and the browser has not yet run or cancelled,  *)
(* by request id.  drag.captured is the set of pointer captures held.      *)
(***************************************************************************)
Handles == {"h1", "h2"}

NoListeners == [target |-> None, moveHandler |-> None, upHandler |-> None]

\* the ids of the closures that are still referenced somewhere
LiveHandlerIds(S) ==
    UNION {{S.listeners[t][i].id : i \in 1..Len(S.listeners[t])} : t \in Handles}
    \cup {Val(h).id : h \in {x \in {S.activeListenersRef.moveHandler,
                                     S.activeListenersRef.upHandler} : IsSome(x)}}

\* a new function object: an identity no live closure has
FreshHandlerId(S) ==
    CHOOSE n \in 1..(Cardinality(LiveHandlerIds(S)) + 1) : n \notin LiveHandlerIds(S)

\* target.addEventListener(type, handler): handler.type is the event type
addEventListener(L, t, handler) ==
    IF \E i \in 1..Len(L[t]) : L[t][i] = handler THEN L
    ELSE [L EXCEPT ![t] = Append(@, handler)]

\* target.removeEventListener(type, handler): removes that very function
removeEventListener(L, t, handler) ==
    [L EXCEPT ![t] = SelectSeq(@, LAMBDA e : e # handler)]

\* requestAnimationFrame: a request id the browser has not handed out before
\* (ids are only compared for equality: the smallest id that is neither
\* pending nor remembered in rafIdRef stands for it)
FreshFrameId(frames, rafIdRef) ==
    LET used == {frames[i] : i \in 1..Len(frames)}
                \cup (IF IsSome(rafIdRef) THEN {Val(rafIdRef)} ELSE {})
    IN  CHOOSE n \in 1..(Cardinality(used) + 1) : n \notin used

requestAnimationFrame(frames, id) == Append(frames, id)

cancelAnimationFrame(frames, id) == SelectSeq(frames, LAMBDA f : f # id)

(***************************************************************************)
(* useDragResize: the hook.  S is the state of the instance (the record    *)
(* held by the variable drag); every operator returns the state after the  *)
(* function has run.  The fields notified, moves and ups log what the      *)
(* current operation did; wroteDims and lastMove remember who wrote the    *)
(* dimensions last, batched how many accepted moves the pending frame      *)
(* request stands for (1, or 2 for more than one).  They are observations, *)
(* not state of the program.  onDimensionsChange is the identity of the   *)
(* callback the latest render was given, rafCallback that of the callback *)
(* the frame callback requested last closes over.                          *)
(***************************************************************************)
\* useState initial value of dimensions
InitialDimensions ==
    [width  |-> OrElse(params.initialWidth, params.minWidth),
     height |-> OrElse(params.initialHeight, params.minHeight)]

\* setDims: dimsRef.current = next; setDimensions(next).  The component
\* re-renders before the next event, so the dimensions of the last render
\* are those of the ref; after the unmount, dimensions stands for the value
\* the state setter was handed last.
\* setDims clamping what it is given to the configured bounds
setDims_Clamped(S, next) ==
    LET c == [width  |-> clampNum(next.width, params.minWidth, params.maxWidth),
              height |-> clamp(next.height, params.minHeight, params.maxHeight)]
    IN  [S EXCEPT !.dimsRef = c, !.dimensions = c]

setDims(S, next) ==
    [S EXCEPT !.dimsRef = next, !.dimensions = next]

\* onDimensionsChange(dimsRef.current), logged with the place of the call;
\* onDimensionsChange is the function the calling closure captured, named by
\* its identity
callOnDimensionsChange(S, from, onDimensionsChange) ==
    [S EXCEPT !.notified = Append(@, [from |-> from, dims |-> S.dimsRef,
                                      callback |-> onDimensionsChange])]

\* notifyLive with the cancel of the pending request left out
notifyLive_NoCancel(S, onDimensionsChange) ==
    IF ~params.live \/ ~params.hasCallback THEN S
    ELSE LET id == FreshFrameId(S.frames, S.rafIdRef)
         IN  [S EXCEPT !.frames = requestAnimationFrame(@, id),
                       !.rafIdRef = Some(id),
                       !.rafCallback = onDimensionsChange,
                       !.batched = IF IsSome(S.rafIdRef) THEN Min(@ + 1, 2) ELSE 1]

\* notifyLive of the render whose callback is onDimensionsChange: the frame
\* callback it requests captures that function
notifyLive(S, onDimensionsChange) ==
    IF ~params.live \/ ~params.hasCallback THEN S
    ELSE LET cancelled == IF IsSome(S.rafIdRef)
                          THEN cancelAnimationFrame(S.frames, Val(S.rafIdRef))
                          ELSE S.frames
             id == FreshFrameId(S.frames, S.rafIdRef)
         IN  [S EXCEPT !.frames = requestAnimationFrame(cancelled, id),
                       !.rafIdRef = Some(id),
                       !.rafCallback = onDimensionsChange,
                       !.batched = IF IsSome(S.rafIdRef) THEN Min(@ + 1, 2) ELSE 1]

\* the callback notifyLive hands to requestAnimationFrame
liveFrameCallback(S) ==
    callOnDimensionsChange([S EXCEPT !.rafIdRef = None], "frame", S.rafCallback)

cleanup(S) ==
    LET a  == S.activeListenersRef
        L1 == IF IsSome(a.target) /\ IsSome(a.moveHandler)
              THEN removeEventListener(S.listeners, Val(a.target), Val(a.moveHandler))
              ELSE S.listeners
        L2 == IF IsSome(a.target) /\ IsSome(a.upHandler)
              THEN removeEventListener(L1, Val(a.target), Val(a.upHandler))
              ELSE L1
    IN  [S EXCEPT !.listeners = L2,
                  !.activeListenersRef = NoListeners,
                  !.frames = IF IsSome(S.rafIdRef)
                             THEN cancelAnimationFrame(@, Val(S.rafIdRef)) ELSE @,
                  !.rafIdRef = None]

\* the listener handlePointerMove(boundaryWidth) returns, run on an event
\* with the given pageX
\* handlePointerMove taking the displacement as pageX - originX whatever the
\* direction is
handlePointerMove_OneWay(S, h, pageX) ==
    LET start     == S.startDimsRef
        proposedW == start.width + (pageX - S.originXRef)
        snappedW  == snapWidth(proposedW, h.boundaryWidth)
        next      == constrainWH(S, snappedW)
        prev      == S.dimsRef
        accepted  == \/ MathRound(prev.width) # MathRound(next.width)
                     \/ MathRound(prev.height) # MathRound(next.height)
        S1        == [S EXCEPT !.moves = Append(@,
                        [proposed |-> proposedW, snapped |-> snappedW,
                         next |-> next, accepted |-> accepted])]
    IN  IF accepted
        THEN notifyLive([setDims(S1, next) EXCEPT !.wroteDims = "move",
                                                  !.lastMove = Some(next)],
                        h.onDimensionsChange)
        ELSE S1

\* handlePointerMove comparing the dimensions exactly, without rounding
handlePointerMove_Exact(S, h, pageX) ==
    LET start     == S.startDimsRef
        originX   == S.originXRef
        deltaX    == IF S.dirRef = "left" THEN originX - pageX ELSE pageX - originX
        proposedW == start.width + deltaX
        snappedW  == snapWidth(proposedW, h.boundaryWidth)
        next      == constrainWH(S, snappedW)
        accepted  == S.dimsRef # next
        S1        == [S EXCEPT !.moves = Append(@,
                        [proposed |-> proposedW, snapped |-> snappedW,
                         next |-> next, accepted |-> accepted])]
    IN  IF accepted
        THEN notifyLive([setDims(S1, next) EXCEPT !.wroteDims = "move",
                                                  !.lastMove = Some(next)],
                        h.onDimensionsChange)
        ELSE S1

handlePointerMove(S, h, pageX) ==
    LET start     == S.startDimsRef
        originX   == S.originXRef
        deltaX    == IF S.dirRef = "left" THEN originX - pageX ELSE pageX - originX
        proposedW == start.width + deltaX
        snappedW  == snapWidth(proposedW, h.boundaryWidth)
        next      == constrainWH(S, snappedW)
        prev      == S.dimsRef
        accepted  == \/ MathRound(prev.width) # MathRound(next.width)
                     \/ MathRound(prev.height) # MathRound(next.height)
        S1        == [S EXCEPT !.moves = Append(@,
                        [proposed |-> proposedW, snapped |-> snappedW,
                         next |-> next, accepted |-> accepted])]
    IN  IF accepted
        THEN notifyLive([setDims(S1, next) EXCEPT !.wroteDims = "move",
                                                  !.lastMove = Some(next)],
                        h.onDimensionsChange)
        ELSE S1

\* the listener handlePointerUp(target, pointerId) returns
handlePointerUp(S, h) ==
    LET S1 == [S EXCEPT !.captured = @ \ {<<h.target, h.pointerId>>},
                        !.ups = @ + 1]
        S2 == [cleanup(S1) EXCEPT !.isResizing = FALSE]
    IN  IF params.hasCallback
        THEN callOnDimensionsChange(S2, "up", h.onDimensionsChange) ELSE S2

\* the pointer-down handler initiateResize(direction, boundaryWidth = maxWidth)
\* returns, run on an event with currentTarget t, pointerId pid and the given
\* pageX
initiateResize(S, direction, boundaryWidthArg, t, pid, pageX) ==
    LET boundaryWidth == OrElse(boundaryWidthArg, params.maxWidth)
        start == [width  |-> clampNum(S.dimensions.width, params.minWidth, params.maxWidth),
                  height |-> clamp(S.dimensions.height, params.minHeight, params.maxHeight)]
        id    == FreshHandlerId(S)
        moveHandler == [type |-> "pointermove", id |-> id,
                        boundaryWidth |-> boundaryWidth, target |-> t, pointerId |-> pid,
                        onDimensionsChange |-> S.onDimensionsChange]
        upHandler   == [type |-> "pointerup", id |-> id,
                        boundaryWidth |-> boundaryWidth, target |-> t, pointerId |-> pid,
                        onDimensionsChange |-> S.onDimensionsChange]
    IN  [S EXCEPT !.captured = @ \cup {<<t, pid>>},
                  !.dirRef = direction,
                  !.originXRef = pageX,
                  !.startDimsRef = start,
                  !.isResizing = TRUE,
                  !.activeListenersRef =
                      [target |-> Some(t), moveHandler |-> Some(moveHandler),
                       upHandler |-> Some(upHandler)],
                  !.listeners = addEventListener(
                                    addEventListener(@, t, moveHandler), t, upHandler)]

\* one listener of a dispatched event
runListener(S, h, pageX) ==
    IF h.type = "pointermove" THEN handlePointerMove(S, h, pageX)
    ELSE handlePointerUp(S, h)

\* target.dispatchEvent: the listeners of the event's type registered on t
\* when the dispatch starts run in registration order; one that an earlier
\* listener has removed meanwhile is skipped
RECURSIVE dispatchFrom(_, _, _, _, _)
dispatchFrom(S, t, snapshot, i, pageX) ==
    IF i > Len(snapshot) THEN S
    ELSE LET h == snapshot[i]
             registered == \E j \in 1..Len(S.listeners[t]) : S.listeners[t][j] = h
         IN  dispatchFrom(IF registered THEN runListener(S, h, pageX) ELSE S,
                          t, snapshot, i + 1, pageX)

dispatchEvent(S, t, type, pageX) ==
    dispatchFrom(S, t, SelectSeq(S.listeners[t], LAMBDA e : e.type = type), 1, pageX)

\* one animation frame: the browser runs the pending callbacks in order
\* (a callback that an earlier callback of the frame cancelled does not run)
RECURSIVE runFrames(_, _, _)
runFrames(S, pending, i) ==
    IF i > Len(pending) THEN S
    ELSE LET id == pending[i]
             queued == \E j \in 1..Len(S.frames) : S.frames[j] = id
             S1 == [S EXCEPT !.frames = cancelAnimationFrame(@, id)]
         IN  runFrames(IF queued THEN liveFrameCallback(S1) ELSE S,
                       pending, i + 1)

\* what the hook returns
currentWidth == Max(drag.dimensions.width, params.minWidth)

currentHeight == Max(drag.dimensions.height, params.minHeight)

(***************************************************************************)
(* useContainerRect: the document and the browser                          *)
(*                                                                         *)
(* The document holds two elements the tracker can be attached to: e1      *)
(* inside a plain div inside a container that scrolls vertically, e2       *)
(* inside a container that scrolls horizontally ("overlay").  It also      *)
(* holds e3, inside a container s3 that scrolls both ways and lies inside  *)
(* s1, and the root element html, which scrolls vertically, above body.    *)
(* tracker.resizeListeners is the list of "resize" listeners registered on *)
(* the window, tracker.scrollListeners[t] the list of "scroll" listeners   *)
(* registered on t, tracker.observers the set of connected ResizeObservers *)
(* with the element each observes, tracker.frames the pending animation    *)
(* frame requests.  A closure or an observer is an id standing for the     *)
(* identity of the object.                                                 *)
(***************************************************************************)
Elements == {"e1", "e2"}

Window == "window"

ScrollTargets == {"s1", "s2", Window}

parentElement ==
    [n \in {"e1", "d1", "s1", "e2", "s2", "e3", "s3", "body", "html"} |->
        CASE n = "e1"   -> Some("d1")
          [] n = "d1"   -> Some("s1")
          [] n = "s1"   -> Some("body")
          [] n = "e2"   -> Some("s2")
          [] n = "s2"   -> Some("body")
          [] n = "e3"   -> Some("s3")
          [] n = "s3"   -> Some("s1")
          [] n = "body" -> Some("html")
          [] OTHER      -> None]

\* getComputedStyle(n): overflowX and overflowY
getComputedStyle(n) ==
    CASE n = "s1"   -> [overflowX |-> "visible", overflowY |-> "auto"]
      [] n = "s2"   -> [overflowX |-> "overlay", overflowY |-> "hidden"]
      [] n = "s3"   -> [overflowX |-> "scroll", overflowY |-> "scroll"]
      [] n = "html" -> [overflowX |-> "visible", overflowY |-> "scroll"]
      [] OTHER      -> [overflowX |-> "visible", overflowY |-> "visible"]

\* the test recognising only auto and scroll
Scrollable_NoOverlay(value) == value \in {"auto", "scroll"}

\* /(auto|scroll|overlay)/.test(value)
Scrollable(value) == value \in {"auto", "scroll", "overlay"}

\* the loop of getScrollParents, from node n (an optional element) on
RECURSIVE scrollParentsFrom(_, _)
scrollParentsFrom(n, res) ==
    IF IsSome(n) /\ Val(n) # "body"
    THEN LET cs == getComputedStyle(Val(n))
         IN  scrollParentsFrom(parentElement[Val(n)],
                 IF Scrollable(cs.overflowY) \/ Scrollable(cs.overflowX)
                 THEN Append(res, Val(n)) ELSE res)
    ELSE Append(res, Window)

\* getScrollParents(el), el an optional element
getScrollParents(el) ==
    IF ~IsSome(el) THEN <<Window>>
    ELSE scrollParentsFrom(parentElement[Val(el)], <<>>)

\* the geometries an element can have, as x, y, width, height: the second
\* differs from the first by a quarter pixel in x and in width, the third
\* by fifty pixels in width
Geometries ==
    {[x |-> Px(10), y |-> Px(20), width |-> Px(100), height |-> Px(200)],
     [x |-> Px(10) + Quarter, y |-> Px(20), width |-> Px(100) + Quarter,
      height |-> Px(200)],
     [x |-> Px(10), y |-> Px(20), width |-> Px(150), height |-> Px(200)]}

\* el.getBoundingClientRect(): a DOMRect, whose top, left, right and bottom
\* derive from x, y, width and height
getBoundingClientRect(el) ==
    LET g == layout[el]
    IN  [x |-> g.x, y |-> g.y, width |-> g.width, height |-> g.height,
         top |-> g.y, left |-> g.x, right |-> g.x + g.width,
         bottom |-> g.y + g.height]

\* DEFAULT_RECT; the field obj stands for the identity of the object
DEFAULT_RECT ==
    [x |-> 0, y |-> 0, width |-> 0, height |-> 0,
     top |-> 0, left |-> 0, right |-> 0, bottom |-> 0, obj |-> 0]

\* a new object literal: an identity none of the rects still referenced has
FreshRectObj(T) ==
    CHOOSE n \in 1..3 : n \notin {T.rect.obj, T.rectRef.obj}

\* the ids of the closures and observers that are still referenced somewhere
LiveTrackerIds(T) ==
    {T.resizeListeners[i] : i \in 1..Len(T.resizeListeners)}
    \cup UNION {{T.scrollListeners[t][i] : i \in 1..Len(T.scrollListeners[t])} :
                t \in ScrollTargets}
    \cup {o.id : o \in T.observers}
    \cup {Val(r) : r \in {x \in {T.roRef, T.resizeHandlerRef} : IsSome(x)}}
    \cup {T.scrollHandlersRef[i].handler : i \in 1..Len(T.scrollHandlersRef)}

FreshTrackerId(T) ==
    CHOOSE n \in 1..(Cardinality(LiveTrackerIds(T)) + 1) : n \notin LiveTrackerIds(T)

(***************************************************************************)
(* useContainerRect: the hook.  T is the state of the instance (the record *)
(* held by the variable tracker).  The fields measures, notifications and  *)
(* flushed are observations: the measurements of the current operation,    *)
(* the change notifications the pending frame requests stand for (1, or 2  *)
(* for more than one), and that number for the frame that has just run.    *)
(***************************************************************************)
\* the comparison of measure: the rounded width, height, x and y agree
same(prev, r) ==
    /\ MathRound(prev.width)  = MathRound(r.width)
    /\ MathRound(prev.height) = MathRound(r.height)
    /\ MathRound(prev.x)      = MathRound(r.x)
    /\ MathRound(prev.y)      = MathRound(r.y)

\* measure with the comparison left out: every measurement is published
measure_AlwaysPublish(T, el) ==
    LET r    == getBoundingClientRect(el)
        prev == T.rect
        next == [x |-> r.x, y |-> r.y, width |-> r.width, height |-> r.height,
                 top |-> r.top, left |-> r.left, right |-> r.right,
                 bottom |-> r.bottom, obj |-> FreshRectObj(T)]
    IN  [T EXCEPT !.rect = next, !.rectRef = next,
                  !.measures = Append(@, [el |-> el, r |-> r, prev |-> prev,
                                          next |-> next])]

\* measure publishing the geometry rounded to whole pixels
measure_PublishRounded(T, el) ==
    LET r    == getBoundingClientRect(el)
        prev == T.rect
        next == [x |-> MathRound(r.x) * Unit, y |-> MathRound(r.y) * Unit,
                 width |-> MathRound(r.width) * Unit,
                 height |-> MathRound(r.height) * Unit,
                 top |-> MathRound(r.top) * Unit, left |-> MathRound(r.left) * Unit,
                 right |-> MathRound(r.right) * Unit,
                 bottom |-> MathRound(r.bottom) * Unit, obj |-> FreshRectObj(T)]
        kept == IF same(prev, r) THEN prev ELSE next
        T1   == [T EXCEPT !.measures = Append(@, [el |-> el, r |-> r, prev |-> prev,
                                                  next |-> kept])]
    IN  IF same(prev, r) THEN T1
        ELSE [T1 EXCEPT !.rect = next, !.rectRef = next]

\* measure(el): setRect(prev => same ? prev : next)
measure(T, el) ==
    LET r    == getBoundingClientRect(el)
        prev == T.rect
        next == [x |-> r.x, y |-> r.y, width |-> r.width, height |-> r.height,
                 top |-> r.top, left |-> r.left, right |-> r.right,
                 bottom |-> r.bottom, obj |-> FreshRectObj(T)]
        kept == IF same(prev, r) THEN prev ELSE next
        T1   == [T EXCEPT !.measures = Append(@, [el |-> el, r |-> r, prev |-> prev,
                                                  next |-> kept])]
    IN  IF same(prev, r) THEN T1
        ELSE [T1 EXCEPT !.rect = next, !.rectRef = next]

\* schedule with the cancel of the pending request left out
schedule_NoCancel(T) ==
    LET id == FreshFrameId(T.frames, T.rafIdRef)
    IN  [T EXCEPT !.frames = requestAnimationFrame(@, id),
                  !.rafIdRef = Some(id),
                  !.notifications = IF T.frames = <<>> THEN 1 ELSE 2]

\* schedule taking a request id in rafIdRef for a pending request and
\* requesting no other frame then
schedule_SkipIfRequested(T) ==
    IF IsSome(T.rafIdRef)
    THEN [T EXCEPT !.notifications = IF T.frames = <<>> THEN 1 ELSE 2]
    ELSE LET id == FreshFrameId(T.frames, T.rafIdRef)
         IN  [T EXCEPT !.frames = requestAnimationFrame(@, id),
                       !.rafIdRef = Some(id),
                       !.notifications = IF T.frames = <<>> THEN 1 ELSE 2]

\* schedule(): the request id stays in rafIdRef after the frame has run, and
\* cancelling a request that has run does nothing
schedule(T) ==
    LET cancelled == IF IsSome(T.rafIdRef)
                     THEN cancelAnimationFrame(T.frames, Val(T.rafIdRef))
                     ELSE T.frames
        id == FreshFrameId(T.frames, T.rafIdRef)
    IN  [T EXCEPT !.frames = requestAnimationFrame(cancelled, id),
                  !.rafIdRef = Some(id),
                  !.notifications = IF T.frames = <<>> THEN 1 ELSE 2]

\* the callback schedule hands to requestAnimationFrame
measureFrameCallback(T) ==
    IF IsSome(T.nodeRef) THEN measure(T, Val(T.nodeRef)) ELSE T

RECURSIVE removeScrollListeners(_, _, _)
removeScrollListeners(L, stored, i) ==
    IF i > Len(stored) THEN L
    ELSE removeScrollListeners(
             [L EXCEPT ![stored[i].target] =
                  SelectSeq(@, LAMBDA h : h # stored[i].handler)],
             stored, i + 1)

\* cleanup of useContainerRect with the scroll listeners left registered
trackerCleanup_KeepScroll(T) ==
    [T EXCEPT !.frames = IF IsSome(T.rafIdRef)
                         THEN cancelAnimationFrame(@, Val(T.rafIdRef)) ELSE @,
              !.rafIdRef = None,
              !.observers = IF IsSome(T.roRef)
                            THEN {o \in @ : o.id # Val(T.roRef)} ELSE @,
              !.roRef = None,
              !.resizeListeners = IF IsSome(T.resizeHandlerRef)
                                  THEN SelectSeq(@, LAMBDA h : h # Val(T.resizeHandlerRef))
                                  ELSE @,
              !.resizeHandlerRef = None,
              !.scrollHandlersRef = <<>>]

\* cleanup of useContainerRect with the pending frame request left queued
trackerCleanup_KeepFrame(T) ==
    [T EXCEPT !.rafIdRef = None,
              !.observers = IF IsSome(T.roRef)
                            THEN {o \in @ : o.id # Val(T.roRef)} ELSE @,
              !.roRef = None,
              !.resizeListeners = IF IsSome(T.resizeHandlerRef)
                                  THEN SelectSeq(@, LAMBDA h : h # Val(T.resizeHandlerRef))
                                  ELSE @,
              !.resizeHandlerRef = None,
              !.scrollListeners = removeScrollListeners(@, T.scrollHandlersRef, 1),
              !.scrollHandlersRef = <<>>]

\* cleanup of useContainerRect
trackerCleanup(T) ==
    [T EXCEPT !.frames = IF IsSome(T.rafIdRef)
                         THEN cancelAnimationFrame(@, Val(T.rafIdRef)) ELSE @,
              !.rafIdRef = None,
              !.observers = IF IsSome(T.roRef)
                            THEN {o \in @ : o.id # Val(T.roRef)} ELSE @,
              !.roRef = None,
              !.resizeListeners = IF IsSome(T.resizeHandlerRef)
                                  THEN SelectSeq(@, LAMBDA h : h # Val(T.resizeHandlerRef))
                                  ELSE @,
              !.resizeHandlerRef = None,
              !.scrollListeners = removeScrollListeners(@, T.scrollHandlersRef, 1),
              !.scrollHandlersRef = <<>>]

\* the loop of ref over getScrollParents(node): one new onScroll per target
RECURSIVE addScrollListeners(_, _, _)
addScrollListeners(T, targets, i) ==
    IF i > Len(targets) THEN T
    ELSE LET onScroll == FreshTrackerId(T)
         IN  addScrollListeners(
                 [T EXCEPT !.scrollListeners[targets[i]] = Append(@, onScroll),
                           !.scrollHandlersRef =
                               Append(@, [target |-> targets[i], handler |-> onScroll])],
                 targets, i + 1)

\* ref with the first measurement deferred to the next frame
ref_Deferred(T, node) ==
    LET T1 == [trackerCleanup(T) EXCEPT !.nodeRef = node]
    IN  IF ~IsSome(node) THEN T1
        ELSE LET T2 == schedule(T1)
                 ro == FreshTrackerId(T2)
                 T3 == [T2 EXCEPT !.roRef = Some(ro),
                                  !.observers = @ \cup {[id |-> ro, el |-> Val(node)]}]
                 onResize == FreshTrackerId(T3)
                 T4 == [T3 EXCEPT !.resizeHandlerRef = Some(onResize),
                                  !.resizeListeners = Append(@, onResize)]
             IN  IF options.trackPosition
                 THEN addScrollListeners(T4, getScrollParents(node), 1)
                 ELSE T4

\* ref with the scroll listeners registered whatever trackPosition is
ref_AlwaysTrack(T, node) ==
    LET T1 == [trackerCleanup(T) EXCEPT !.nodeRef = node]
    IN  IF ~IsSome(node) THEN T1
        ELSE LET T2 == measure(T1, Val(node))
                 ro == FreshTrackerId(T2)
                 T3 == [T2 EXCEPT !.roRef = Some(ro),
                                  !.observers = @ \cup {[id |-> ro, el |-> Val(node)]}]
                 onResize == FreshTrackerId(T3)
                 T4 == [T3 EXCEPT !.resizeHandlerRef = Some(onResize),
                                  !.resizeListeners = Append(@, onResize)]
             IN  addScrollListeners(T4, getScrollParents(node), 1)

\* the callback ref resetting the rect to DEFAULT_RECT when called with null
ref_ResetOnDetach(T, node) ==
    LET T1 == [trackerCleanup(T) EXCEPT !.nodeRef = node]
    IN  IF ~IsSome(node) THEN [T1 EXCEPT !.rect = DEFAULT_RECT, !.rectRef = DEFAULT_RECT]
        ELSE LET T2 == measure(T1, Val(node))
                 ro == FreshTrackerId(T2)
                 T3 == [T2 EXCEPT !.roRef = Some(ro),
                                  !.observers = @ \cup {[id |-> ro, el |-> Val(node)]}]
                 onResize == FreshTrackerId(T3)
                 T4 == [T3 EXCEPT !.resizeHandlerRef = Some(onResize),
                                  !.resizeListeners = Append(@, onResize)]
             IN  IF options.trackPosition
                 THEN addScrollListeners(T4, getScrollParents(node), 1)
                 ELSE T4

\* the callback ref, called with an optional element
ref(T, node) ==
    LET T1 == [trackerCleanup(T) EXCEPT !.nodeRef = node]
    IN  IF ~IsSome(node) THEN T1
        ELSE LET T2 == measure(T1, Val(node))
                 ro == FreshTrackerId(T2)
                 T3 == [T2 EXCEPT !.roRef = Some(ro),
                                  !.observers = @ \cup {[id |-> ro, el |-> Val(node)]}]
                 onResize == FreshTrackerId(T3)
                 T4 == [T3 EXCEPT !.resizeHandlerRef = Some(onResize),
                                  !.resizeListeners = Append(@, onResize)]
             IN  IF options.trackPosition
                 THEN addScrollListeners(T4, getScrollParents(node), 1)
                 ELSE T4

\* the cleanup of the layout effect, run when the component unmounts
unmountEffect(T) == trackerCleanup([T EXCEPT !.nodeRef = None])

\* an event dispatched on a target: every listener registered for it runs,
\* and every listener of the tracker is () => schedule()
RECURSIVE runSchedules(_, _)
runSchedules(T, n) == IF n = 0 THEN T ELSE runSchedules(schedule(T), n - 1)

\* one animation frame: the browser runs the pending callbacks in order
RECURSIVE runMeasureFrames(_, _, _)
runMeasureFrames(T, pending, i) ==
    IF i > Len(pending) THEN T
    ELSE LET id == pending[i]
             queued == \E j \in 1..Len(T.frames) : T.frames[j] = id
             T1 == [T EXCEPT !.frames = cancelAnimationFrame(@, id)]
         IN  runMeasureFrames(IF queued THEN measureFrameCallback(T1) ELSE T,
                              pending, i + 1)

(***************************************************************************)
(* useContainerRect: the state machine                                     *)
(***************************************************************************)
TrackerInitialState ==
    [mounted           |-> TRUE,
     rect              |-> DEFAULT_RECT,
     nodeRef           |-> None,
     rectRef           |-> DEFAULT_RECT,
     rafIdRef          |-> None,
     roRef             |-> None,
     resizeHandlerRef  |-> None,
     scrollHandlersRef |-> <<>>,
     resizeListeners   |-> <<>>,
     scrollListeners   |-> [t \in ScrollTargets |-> <<>>],
     observers         |-> {},
     frames            |-> <<>>,
     measures          |-> <<>>,
     notifications     |-> 0,
     flushed           |-> 0]

\* the record of an operation: its name and the element attached before it
TrackOp(name, prevNode) == [name |-> name, prevNode |-> prevNode]

\* the record of an event: also how many listeners of the tracker it ran
TrackOpRan(name, prevNode, ran) == [name |-> name, prevNode |-> prevNode, ran |-> ran]

FreshT(T) == [T EXCEPT !.measures = <<>>, !.flushed = 0]

RectIdle ==
    /\ options = [trackPosition |-> FALSE]
    /\ layout = [e \in Elements |->
                    [x |-> Px(10), y |-> Px(20), width |-> Px(100), height |-> Px(200)]]
    /\ tracker = TrackerInitialState
    /\ trackOp = TrackOp("init", None)

RectInit ==
    /\ options \in [trackPosition : BOOLEAN]
    /\ layout \in [Elements -> Geometries]
    /\ tracker = TrackerInitialState
    /\ trackOp = TrackOp("init", None)

\* React calls the callback ref with an element or with null
Attach(node) ==
    /\ tracker.mounted
    /\ tracker' = ref(FreshT(tracker), node)
    /\ trackOp' = TrackOp("attach", tracker.nodeRef)
    /\ UNCHANGED <<options, layout, dragVars, throttleVars>>

\* the component unmounts
RectUnmount ==
    /\ tracker.mounted
    /\ tracker' = [unmountEffect(FreshT(tracker)) EXCEPT !.mounted = FALSE]
    /\ trackOp' = TrackOp("unmount", tracker.nodeRef)
    /\ UNCHANGED <<options, layout, dragVars, throttleVars>>

\* the layout of the page changes the geometry of an element
LayoutChange(e, g) ==
    /\ layout[e] # g
    /\ layout' = [layout EXCEPT ![e] = g]
    /\ tracker' = FreshT(tracker)
    /\ trackOp' = TrackOp("layout", tracker.nodeRef)
    /\ UNCHANGED <<options, dragVars, throttleVars>>

\* a connected ResizeObserver delivers a notification: its callback runs
ResizeNotification(o) ==
    /\ o \in tracker.observers
    /\ tracker' = schedule(FreshT(tracker))
    /\ trackOp' = TrackOp("resize-notification", tracker.nodeRef)
    /\ UNCHANGED <<options, layout, dragVars, throttleVars>>

\* a resize event on the window
WindowResize ==
    /\ tracker' = runSchedules(FreshT(tracker), Len(tracker.resizeListeners))
    /\ trackOp' = TrackOpRan("window-resize", tracker.nodeRef,
                              Len(tracker.resizeListeners))
    /\ UNCHANGED <<options, layout, dragVars, throttleVars>>

\* a scroll event on a scroll container or on the window
Scroll(t) ==
    /\ tracker' = runSchedules(FreshT(tracker), Len(tracker.scrollListeners[t]))
    /\ trackOp' = TrackOpRan("scroll", tracker.nodeRef,
                              Len(tracker.scrollListeners[t]))
    /\ UNCHANGED <<options, layout, dragVars, throttleVars>>

\* the next animation frame
RectFrame ==
    /\ tracker.frames # <<>>
    /\ tracker' = [runMeasureFrames(FreshT(tracker), tracker.frames, 1)
                      EXCEPT !.notifications = 0,
                             !.flushed = tracker.notifications]
    /\ trackOp' = TrackOp("frame", tracker.nodeRef)
    /\ UNCHANGED <<options, layout, dragVars, throttleVars>>

RectNext ==
    \/ \E node \in {None} \cup {Some(e) : e \in Elements} : Attach(node)
    \/ RectUnmount
    \/ \E e \in Elements, g \in Geometries : LayoutChange(e, g)
    \/ \E o \in tracker.observers : ResizeNotification(o)
    \/ WindowResize
    \/ \E t \in ScrollTargets : Scroll(t)
    \/ RectFrame

(***************************************************************************)
(* useThrottle: the hook.  T is the state of the instance (the record held *)
(* by the variable throttle): the refs of the hook, the callback of the    *)
(* latest render, the clock Date.now() reads (now, in milliseconds) and    *)
(* the timeouts the browser holds (timers, each with its id and the time   *)
(* it is due).  The arguments of a run call are the number of the call.    *)
(* The field execs logs the executions of the callback made by the current *)
(* operation: the time, the arguments, the callback called, the caller     *)
(* ("run", "timer", "flush"), the time of the execution before it and      *)
(* whether cancel ran since then, and how many run calls had been made at  *)
(* the execution before it; lastExec, cancelled and lastExecRuns carry     *)
(* this from one operation to the next.  They are observations.            *)
(***************************************************************************)
\* cbRef.current(...args)
callCallback(T, args, by) ==
    [T EXCEPT !.execs = Append(@, [at |-> T.now, args |-> args, cb |-> T.cbRef,
                                   by |-> by, previous |-> T.lastExec,
                                   cancelled |-> T.cancelled,
                                   runsBefore |-> T.lastExecRuns]),
              !.lastExec = Some(T.now),
              !.lastExecRuns = T.runs,
              !.cancelled = FALSE]

\* invoke()
invoke(T, by) ==
    IF ~IsSome(T.lastArgsRef) THEN T
    ELSE [callCallback(T, Val(T.lastArgsRef), by) EXCEPT !.lastInvokeRef = Some(T.now)]

\* clearTimeout(id)
clearTimeout(timers, id) == {tm \in timers : tm.id # id}

\* the id setTimeout returns: one no timeout still referenced has
FreshTimerId(T) ==
    CHOOSE n \in 1..(Cardinality(T.timers) + 2) :
        /\ n \notin {tm.id : tm \in T.timers}
        /\ T.timerRef # Some(n)

\* timerRef.current = setTimeout(() => { timerRef.current = null; invoke() }, ms)
setTrailingTimer(T, ms) ==
    LET id == FreshTimerId(T)
    IN  [T EXCEPT !.timers = @ \cup {[id |-> id, due |-> T.now + ms]},
                  !.timerRef = Some(id)]

\* the callback of the trailing timer without timerRef.current = null
trailingTimerCallback_KeepRef(T) == invoke(T, "timer")

\* the callback of the trailing timer
trailingTimerCallback(T) == invoke([T EXCEPT !.timerRef = None], "timer")

\* cancel without clearTimeout: the refs are reset and the timeout is left
\* with the browser
throttleCancel_KeepTimer(T) ==
    [T EXCEPT !.timerRef = None,
              !.lastArgsRef = None,
              !.lastInvokeRef = None,
              !.cancelled = TRUE]

\* cancel()
throttleCancel(T) ==
    [T EXCEPT !.timers = IF IsSome(T.timerRef) THEN clearTimeout(@, Val(T.timerRef)) ELSE @,
              !.timerRef = None,
              !.lastArgsRef = None,
              !.lastInvokeRef = None,
              !.cancelled = TRUE]

\* flush without the test for a timeout: it invokes whatever is stored
flush_Unguarded(T) ==
    invoke([T EXCEPT !.timers = IF IsSome(T.timerRef)
                                THEN clearTimeout(@, Val(T.timerRef)) ELSE @,
                     !.timerRef = None], "flush")

\* flush without clearTimeout: it invokes and leaves the timeout with the
\* browser
flush_KeepTimer(T) ==
    IF IsSome(T.timerRef)
    THEN invoke([T EXCEPT !.timerRef = None], "flush")
    ELSE T

\* flush()
flush(T) ==
    IF IsSome(T.timerRef)
    THEN invoke([T EXCEPT !.timers = clearTimeout(@, Val(T.timerRef)),
                          !.timerRef = None], "flush")
    ELSE T

\* pending()
pending(T) == IsSome(T.timerRef)

\* run with the trailing timer set to the time elapsed, not the time remaining
run_ElapsedTimer(T, args) ==
    IF throttleOptions.delay <= 0 THEN callCallback(T, args, "run")
    ELSE LET T1 == [T EXCEPT !.lastArgsRef = Some(args)]
             last == T.lastInvokeRef
             shouldInvoke == ~IsSome(last) \/ T.now - Val(last) >= throttleOptions.delay
             T2 == [T1 EXCEPT !.timers = IF IsSome(T.timerRef)
                                         THEN clearTimeout(@, Val(T.timerRef)) ELSE @,
                              !.timerRef = None]
         IN  IF shouldInvoke
             THEN IF throttleOptions.leading THEN invoke(T2, "run")
                  ELSE LET T3 == [T2 EXCEPT !.lastInvokeRef = Some(T.now)]
                       IN  IF throttleOptions.trailing
                           THEN setTrailingTimer(T3, throttleOptions.delay)
                           ELSE T3
             ELSE IF throttleOptions.trailing /\ ~IsSome(T.timerRef)
                  THEN setTrailingTimer(T1, T.now - Val(last))
                  ELSE T1

\* run with the leading option ignored: a new window always executes at once
run_IgnoreLeading(T, args) ==
    IF throttleOptions.delay <= 0 THEN callCallback(T, args, "run")
    ELSE LET T1 == [T EXCEPT !.lastArgsRef = Some(args)]
             last == T.lastInvokeRef
             shouldInvoke == ~IsSome(last) \/ T.now - Val(last) >= throttleOptions.delay
             T2 == [T1 EXCEPT !.timers = IF IsSome(T.timerRef)
                                         THEN clearTimeout(@, Val(T.timerRef)) ELSE @,
                              !.timerRef = None]
         IN  IF shouldInvoke
             THEN invoke(T2, "run")
             ELSE IF throttleOptions.trailing /\ ~IsSome(T.timerRef)
                  THEN setTrailingTimer(T1, throttleOptions.delay - (T.now - Val(last)))
                  ELSE T1

\* run with the arguments of a call dropped when a trailing call is scheduled
\* already
run_KeepFirstArgs(T, args) ==
    IF throttleOptions.delay <= 0 THEN callCallback(T, args, "run")
    ELSE LET T1 == [T EXCEPT !.lastArgsRef = Some(args)]
             last == T.lastInvokeRef
             shouldInvoke == ~IsSome(last) \/ T.now - Val(last) >= throttleOptions.delay
             T2 == [T1 EXCEPT !.timers = IF IsSome(T.timerRef)
                                         THEN clearTimeout(@, Val(T.timerRef)) ELSE @,
                              !.timerRef = None]
         IN  IF shouldInvoke
             THEN IF throttleOptions.leading THEN invoke(T2, "run")
                  ELSE LET T3 == [T2 EXCEPT !.lastInvokeRef = Some(T.now)]
                       IN  IF throttleOptions.trailing
                           THEN setTrailingTimer(T3, throttleOptions.delay)
                           ELSE T3
             ELSE IF throttleOptions.trailing /\ ~IsSome(T.timerRef)
                  THEN setTrailingTimer(T1, throttleOptions.delay - (T.now - Val(last)))
                  ELSE T

\* run with the trailing option ignored: a call inside the window always
\* schedules a trailing call
run_AlwaysTrailing(T, args) ==
    IF throttleOptions.delay <= 0 THEN callCallback(T, args, "run")
    ELSE LET T1 == [T EXCEPT !.lastArgsRef = Some(args)]
             last == T.lastInvokeRef
             shouldInvoke == ~IsSome(last) \/ T.now - Val(last) >= throttleOptions.delay
             T2 == [T1 EXCEPT !.timers = IF IsSome(T.timerRef)
                                         THEN clearTimeout(@, Val(T.timerRef)) ELSE @,
                              !.timerRef = None]
         IN  IF shouldInvoke
             THEN IF throttleOptions.leading THEN invoke(T2, "run")
                  ELSE LET T3 == [T2 EXCEPT !.lastInvokeRef = Some(T.now)]
                       IN  IF throttleOptions.trailing
                           THEN setTrailingTimer(T3, throttleOptions.delay)
                           ELSE T3
             ELSE IF ~IsSome(T.timerRef)
                  THEN setTrailingTimer(T1, throttleOptions.delay - (T.now - Val(last)))
                  ELSE T1

\* run with only a negative delay taken as no throttling
run_ZeroThrottled(T, args) ==
    IF throttleOptions.delay < 0 THEN callCallback(T, args, "run")
    ELSE LET T1 == [T EXCEPT !.lastArgsRef = Some(args)]
             last == T.lastInvokeRef
             shouldInvoke == ~IsSome(last) \/ T.now - Val(last) >= throttleOptions.delay
             T2 == [T1 EXCEPT !.timers = IF IsSome(T.timerRef)
                                         THEN clearTimeout(@, Val(T.timerRef)) ELSE @,
                              !.timerRef = None]
         IN  IF shouldInvoke
             THEN IF throttleOptions.leading THEN invoke(T2, "run")
                  ELSE LET T3 == [T2 EXCEPT !.lastInvokeRef = Some(T.now)]
                       IN  IF throttleOptions.trailing
                           THEN setTrailingTimer(T3, throttleOptions.delay)
                           ELSE T3
             ELSE IF throttleOptions.trailing /\ ~IsSome(T.timerRef)
                  THEN setTrailingTimer(T1, throttleOptions.delay - (T.now - Val(last)))
                  ELSE T1

\* run scheduling a trailing execution after a leading one as well
run_LeadingThenTrailing(T, args) ==
    IF throttleOptions.delay <= 0 THEN callCallback(T, args, "run")
    ELSE LET T1 == [T EXCEPT !.lastArgsRef = Some(args)]
             last == T.lastInvokeRef
             shouldInvoke == ~IsSome(last) \/ T.now - Val(last) >= throttleOptions.delay
             T2 == [T1 EXCEPT !.timers = IF IsSome(T.timerRef)
                                         THEN clearTimeout(@, Val(T.timerRef)) ELSE @,
                              !.timerRef = None]
         IN  IF shouldInvoke
             THEN IF throttleOptions.leading
                  THEN IF throttleOptions.trailing
                       THEN setTrailingTimer(invoke(T2, "run"), throttleOptions.delay)
                       ELSE invoke(T2, "run")
                  ELSE LET T3 == [T2 EXCEPT !.lastInvokeRef = Some(T.now)]
                       IN  IF throttleOptions.trailing
                           THEN setTrailingTimer(T3, throttleOptions.delay)
                           ELSE T3
             ELSE IF throttleOptions.trailing /\ ~IsSome(T.timerRef)
                  THEN setTrailingTimer(T1, throttleOptions.delay - (T.now - Val(last)))
                  ELSE T1

\* run(...args)
run(T, args) ==
    IF throttleOptions.delay <= 0 THEN callCallback(T, args, "run")
    ELSE LET T1 == [T EXCEPT !.lastArgsRef = Some(args)]
             last == T.lastInvokeRef
             shouldInvoke == ~IsSome(last) \/ T.now - Val(last) >= throttleOptions.delay
             T2 == [T1 EXCEPT !.timers = IF IsSome(T.timerRef)
                                         THEN clearTimeout(@, Val(T.timerRef)) ELSE @,
                              !.timerRef = None]
         IN  IF shouldInvoke
             THEN IF throttleOptions.leading THEN invoke(T2, "run")
                  ELSE LET T3 == [T2 EXCEPT !.lastInvokeRef = Some(T.now)]
                       IN  IF throttleOptions.trailing
                           THEN setTrailingTimer(T3, throttleOptions.delay)
                           ELSE T3
             ELSE IF throttleOptions.trailing /\ ~IsSome(T.timerRef)
                  THEN setTrailingTimer(T1, throttleOptions.delay - (T.now - Val(last)))
                  ELSE T1

(***************************************************************************)
(* useThrottle: the state machine                                          *)
(***************************************************************************)
\* the clock stops at MaxTime milliseconds
MaxTime == 7

\* at most MaxRuns run calls are made
MaxRuns == 4

\* the delays the hook is called with: negative, none, and three milliseconds
Delays == {-1, 0, 3}

\* the callbacks the owner renders with
Callbacks == {1, 2}

ThrottleInitialState ==
    [mounted       |-> TRUE,
     callback      |-> 1,
     effectPending |-> FALSE,
     cbRef         |-> 1,
     timerRef      |-> None,
     lastInvokeRef |-> None,
     lastArgsRef   |-> None,
     now           |-> 0,
     timers        |-> {},
     runs          |-> 0,
     execs         |-> <<>>,
     lastExec      |-> None,
     lastExecRuns  |-> 0,
     cancelled     |-> FALSE]

ThrottleOp(name) == [name |-> name]

\* the record of a cancel or an unmount: whether a timeout was pending before
ThrottleOpCleared(name, T) == [name |-> name, cleared |-> pending(T)]

FreshExecs(T) == [T EXCEPT !.execs = <<>>]

\* no throttle in use
ThrottleIdle ==
    /\ throttleOptions = [delay |-> 0, leading |-> TRUE, trailing |-> TRUE]
    /\ throttle = ThrottleInitialState
    /\ throttleOp = ThrottleOp("init")

ThrottleInit ==
    /\ throttleOptions \in [delay : Delays, leading : BOOLEAN, trailing : BOOLEAN]
    /\ throttle = ThrottleInitialState
    /\ throttleOp = ThrottleOp("init")

\* the owner calls run; the arguments are the number of the call
Run ==
    /\ throttle.runs < MaxRuns
    /\ throttle' = run([FreshExecs(throttle) EXCEPT !.runs = @ + 1], throttle.runs + 1)
    /\ throttleOp' = ThrottleOp("run")
    /\ UNCHANGED <<throttleOptions, dragVars, rectVars>>

\* the owner calls cancel
Cancel ==
    /\ throttle' = throttleCancel(FreshExecs(throttle))
    /\ throttleOp' = ThrottleOpCleared("cancel", throttle)
    /\ UNCHANGED <<throttleOptions, dragVars, rectVars>>

\* the owner calls flush
Flush ==
    /\ throttle' = flush(FreshExecs(throttle))
    /\ throttleOp' = ThrottleOp("flush")
    /\ UNCHANGED <<throttleOptions, dragVars, rectVars>>

\* the browser runs the callback of a timeout that is due, on time or late
TimerFire(tm) ==
    /\ tm \in throttle.timers
    /\ tm.due <= throttle.now
    /\ throttle' = trailingTimerCallback(
                       [FreshExecs(throttle) EXCEPT !.timers = @ \ {tm}])
    /\ throttleOp' = ThrottleOp("timer")
    /\ UNCHANGED <<throttleOptions, dragVars, rectVars>>

\* a millisecond passes
Tick ==
    /\ throttle.now < MaxTime
    /\ throttle' = [FreshExecs(throttle) EXCEPT !.now = @ + 1]
    /\ throttleOp' = ThrottleOp("tick")
    /\ UNCHANGED <<throttleOptions, dragVars, rectVars>>

\* the owner renders again, with another callback
Render(cb) ==
    /\ throttle.mounted
    /\ ~throttle.effectPending
    /\ cb # throttle.callback
    /\ throttle' = [FreshExecs(throttle) EXCEPT !.callback = cb, !.effectPending = TRUE]
    /\ throttleOp' = ThrottleOp("render")
    /\ UNCHANGED <<throttleOptions, dragVars, rectVars>>

\* the effect of that render runs: cbRef.current = callback
CallbackEffect ==
    /\ throttle.mounted
    /\ throttle.effectPending
    /\ throttle' = [FreshExecs(throttle) EXCEPT !.cbRef = throttle.callback,
                                                !.effectPending = FALSE]
    /\ throttleOp' = ThrottleOp("effect")
    /\ UNCHANGED <<throttleOptions, dragVars, rectVars>>

\* the component unmounts and the cleanup of the effect does not run
ThrottleUnmount_NoCancel ==
    /\ throttle.mounted
    /\ ~throttle.effectPending
    /\ throttle' = [FreshExecs(throttle) EXCEPT !.mounted = FALSE]
    /\ throttleOp' = ThrottleOpCleared("unmount", throttle)
    /\ UNCHANGED <<throttleOptions, dragVars, rectVars>>

\* the component unmounts: the cleanup of the effect, cancel, runs.  React
\* runs the effects of a render before it commits the next change, so no
\* effect is pending at the unmount.
ThrottleUnmount ==
    /\ throttle.mounted
    /\ ~throttle.effectPending
    /\ throttle' = [throttleCancel(FreshExecs(throttle)) EXCEPT !.mounted = FALSE]
    /\ throttleOp' = ThrottleOpCleared("unmount", throttle)
    /\ UNCHANGED <<throttleOptions, dragVars, rectVars>>

ThrottleNext ==
    \/ Run
    \/ Cancel
    \/ Flush
    \/ \E tm \in throttle.timers : TimerFire(tm)
    \/ Tick
    \/ \E cb \in Callbacks : Render(cb)
    \/ CallbackEffect
    \/ ThrottleUnmount

(***************************************************************************)
(* useDragResize: the state machine                                        *)
(***************************************************************************)
\* Bound: the number of pointer-down closures alive at once (registered on a
\* handle or remembered in activeListenersRef).
MaxSessions == 3

PageXDown == {Px(200)}

PageXMove == {Px(100), Px(1000)}

\* The owner's markup: handle h1 carries onPointerDown =
\* initiateResize('left') and is worked by pointer 1, handle h2 carries
\* initiateResize('right', 400) and is worked by pointer 2.
HandleProps ==
    [t \in Handles |->
        IF t = "h1"
        THEN [direction |-> "left", boundaryWidth |-> None, pointerId |-> 1]
        ELSE [direction |-> "right", boundaryWidth |-> Some(Px(400)), pointerId |-> 2]]

\* the values the owner passes to setDimensions
Overrides == {[width |-> Px(1000), height |-> Px(50)]}

DragParams(init, maxHeight, gridPercent, content, live, hasCallback) ==
    [initialWidth   |-> init[1],
     initialHeight  |-> init[2],
     minWidth       |-> Px(100),
     minHeight      |-> Px(100),
     maxWidth       |-> Px(500),
     maxHeight      |-> maxHeight,
     gridPercent    |-> gridPercent,
     contentWidth   |-> content[1],
     contentHeight  |-> content[2],
     live           |-> live,
     hasCallback    |-> hasCallback]

\* the configurations of the lifecycle specification: the notification
\* options vary
LifecycleParams ==
    {DragParams(<<Some(Px(200)), Some(Px(200))>>, None, 100, <<None, None>>,
                notify[1], notify[2]) :
        notify \in {<<FALSE, TRUE>>, <<TRUE, TRUE>>, <<TRUE, FALSE>>}}

\* the configurations of the geometry specification: the initial dimensions
\* (absent, within the bounds, above them, a quarter pixel below maxWidth),
\* maxHeight, the grid and the aspect lock vary
GeometryParams ==
    {DragParams(init, maxHeight, gridPercent, content, TRUE, TRUE) :
        init \in {<<None, None>>, <<Some(Px(220)), Some(Px(200))>>,
                  <<Some(Px(600)), Some(Px(400))>>,
                  <<Some(Px(500) - Quarter), Some(Px(200))>>},
        maxHeight \in {None, Some(Px(250))},
        gridPercent \in {100, 25},
        content \in {<<None, None>>, <<Some(16), Some(9)>>}}

\* a session is active: the controller is in state Resizing, not Idle
Resizing == drag.mounted /\ drag.isResizing

\* the record of an operation: its name, whether a session was active when
\* it began, and whether its event was dispatched on that session's handle
Op(name, wasResizing, onSession) ==
    [name |-> name, wasResizing |-> wasResizing, onSession |-> onSession]

\* the log of the last operation starts empty
Fresh(S) == [S EXCEPT !.notified = <<>>, !.moves = <<>>, !.ups = 0]

DragInitialState ==
    [mounted            |-> TRUE,
     dimensions         |-> InitialDimensions,
     isResizing         |-> FALSE,
     dimsRef            |-> InitialDimensions,
     originXRef         |-> 0,
     startDimsRef       |-> InitialDimensions,
     dirRef             |-> "right",
     rafIdRef           |-> None,
     onDimensionsChange |-> 1,
     rafCallback        |-> 1,
     activeListenersRef |-> NoListeners,
     listeners          |-> [t \in Handles |-> <<>>],
     frames             |-> <<>>,
     captured           |-> {},
     notified           |-> <<>>,
     moves              |-> <<>>,
     ups                |-> 0,
     wroteDims          |-> "initial",
     lastMove           |-> None,
     batched            |-> 0]

DragInit ==
    /\ params \in LifecycleParams
    /\ handles = Handles
    /\ drag = DragInitialState
    /\ dragOp = Op("init", FALSE, FALSE)
    /\ RectIdle
    /\ ThrottleIdle

GeometryInit ==
    /\ params \in GeometryParams
    /\ handles \in {{t} : t \in Handles}
    /\ drag = DragInitialState
    /\ dragOp = Op("init", FALSE, FALSE)
    /\ RectIdle
    /\ ThrottleIdle

\* no controller in use
DragIdle ==
    /\ params = DragParams(<<None, None>>, None, 100, <<None, None>>, FALSE, FALSE)
    /\ handles = {}
    /\ drag = DragInitialState
    /\ dragOp = Op("init", FALSE, FALSE)

\* a pointer-down on handle t
PointerDown(t, pageX) ==
    /\ drag.mounted
    /\ Cardinality(LiveHandlerIds(drag)) < MaxSessions
    /\ drag' = initiateResize(Fresh(drag), HandleProps[t].direction,
                              HandleProps[t].boundaryWidth, t,
                              HandleProps[t].pointerId, pageX)
    /\ dragOp' = Op("down", Resizing, drag.activeListenersRef.target = Some(t))
    /\ UNCHANGED <<params, handles, rectVars, throttleVars>>

\* a pointermove event dispatched on handle t
PointerMove(t, pageX) ==
    /\ drag' = dispatchEvent(Fresh(drag), t, "pointermove", pageX)
    /\ dragOp' = Op("move", Resizing, drag.activeListenersRef.target = Some(t))
    /\ UNCHANGED <<params, handles, rectVars, throttleVars>>

\* a pointerup event dispatched on handle t
PointerUp(t) ==
    /\ drag' = dispatchEvent(Fresh(drag), t, "pointerup", 0)
    /\ dragOp' = Op("up", Resizing, drag.activeListenersRef.target = Some(t))
    /\ UNCHANGED <<params, handles, rectVars, throttleVars>>

\* the next animation frame
DragFrame ==
    /\ drag.frames # <<>>
    /\ drag' = runFrames(Fresh(drag), drag.frames, 1)
    /\ dragOp' = Op("frame", Resizing, FALSE)
    /\ UNCHANGED <<params, handles, rectVars, throttleVars>>

\* the owner calls the returned setDimensions
SetDimensions(d) ==
    /\ drag.mounted
    /\ drag' = [setDims(Fresh(drag), d) EXCEPT !.wroteDims = "setDimensions"]
    /\ dragOp' = Op("setDimensions", Resizing, FALSE)
    /\ UNCHANGED <<params, handles, rectVars, throttleVars>>

\* the component unmounts: the effect's cleanup runs
DragUnmount ==
    /\ drag.mounted
    /\ drag' = [cleanup(Fresh(drag)) EXCEPT !.mounted = FALSE]
    /\ dragOp' = Op("unmount", Resizing, FALSE)
    /\ UNCHANGED <<params, handles, rectVars, throttleVars>>

DragNext ==
    \/ \E t \in handles, x \in PageXDown : PointerDown(t, x)
    \/ \E t \in handles, x \in PageXMove : PointerMove(t, x)
    \/ \E t \in handles : PointerUp(t)
    \/ DragFrame
    \/ \E d \in Overrides : SetDimensions(d)
    \/ DragUnmount

\* the controller with both handles, the notification options varying
SpecDrag == DragInit /\ [][DragNext]_vars

\* the controller with one handle, the geometry options varying
SpecDragGeometry == GeometryInit /\ [][DragNext]_vars

\* the configurations of the grid specification: gridPercent below 1, between
\* 1 and 100, and above 100, and initial widths from which a drag of 100
\* pixels proposes 270 and 300
SnapParams ==
    {DragParams(init, None, gridPercent, <<None, None>>, TRUE, TRUE) :
        init \in {<<Some(Px(170)), Some(Px(200))>>, <<Some(Px(200)), Some(Px(200))>>},
        gridPercent \in {-5, 25, 150}}

SnapInit ==
    /\ params \in SnapParams
    /\ handles \in {{t} : t \in Handles}
    /\ drag = DragInitialState
    /\ dragOp = Op("init", FALSE, FALSE)
    /\ RectIdle
    /\ ThrottleIdle

\* the controller with one handle, gridPercent varying
SpecSnap == SnapInit /\ [][DragNext]_vars

\* the owner re-renders with an onDimensionsChange of another identity:
\* notifyLive and handlePointerUp are created anew (onDimensionsChange is in
\* their dependency lists) and the handles receive the new initiateResize;
\* listeners registered and a frame requested before keep the closures they
\* were created with
DragRender(onDimensionsChange) ==
    /\ drag.mounted
    /\ onDimensionsChange # drag.onDimensionsChange
    /\ drag' = [Fresh(drag) EXCEPT !.onDimensionsChange = onDimensionsChange]
    /\ dragOp' = Op("render", Resizing, FALSE)
    /\ UNCHANGED <<params, handles, rectVars, throttleVars>>

\* the configuration of the callback specification: a callback is supplied
\* and live notifications are on
CallbackParams ==
    {DragParams(<<Some(Px(200)), Some(Px(200))>>, None, 100, <<None, None>>,
                TRUE, TRUE)}

CallbackInit ==
    /\ params \in CallbackParams
    /\ handles \in {{t} : t \in Handles}
    /\ drag = DragInitialState
    /\ dragOp = Op("init", FALSE, FALSE)
    /\ RectIdle
    /\ ThrottleIdle

CallbackNext ==
    \/ DragNext
    \/ \E onDimensionsChange \in Callbacks : DragRender(onDimensionsChange)

\* the controller with one handle, the owner's callback changing identity
SpecCallback == CallbackInit /\ [][CallbackNext]_vars

\* the rect tracker alone: no controller in use
TrackerInit == RectInit /\ DragIdle /\ ThrottleIdle

SpecRect == TrackerInit /\ [][RectNext]_vars

\* the tracker, the browser running every animation frame that stays
\* requested
SpecRectFair == TrackerInit /\ [][RectNext]_vars /\ WF_vars(RectFrame)

\* the throttle alone: no controller and no tracker in use
ThrottleAloneInit == ThrottleInit /\ DragIdle /\ RectIdle

SpecThrottle == ThrottleAloneInit /\ [][ThrottleNext]_vars

(***************************************************************************)
(* useThrottle over unbounded time.  The hook reads the clock only to take *)
(* the difference now - last and compares it with delay, and a timeout is  *)
(* due or not, so after every step the times are restated relative to the  *)
(* present: now is 0, an invocation delay or more ago is delay ago, a      *)
(* timeout that is overdue is due now.  The run calls are numbered 1, 2,   *)
(* 1, 2, ... so that the arguments of a call differ from those of the call *)
(* before it.                                                              *)
(***************************************************************************)
Rebase(T) ==
    [T EXCEPT !.now = 0,
              !.lastInvokeRef = IF IsSome(@)
                                THEN Some(Max(Val(@) - T.now, 0 - Max(throttleOptions.delay, 0)))
                                ELSE None,
              !.timers = {[id |-> tm.id, due |-> Max(tm.due - T.now, 0)] : tm \in @},
              !.execs = [i \in 1..Len(@) |->
                            [@[i] EXCEPT !.at = 0, !.previous = None, !.runsBefore = 0]],
              !.lastExec = None,
              !.lastExecRuns = 0]

\* the owner calls run
FairRun ==
    /\ throttle' = Rebase(run([FreshExecs(throttle) EXCEPT !.runs = (@ % 2) + 1],
                              (throttle.runs % 2) + 1))
    /\ throttleOp' = ThrottleOp("run")
    /\ UNCHANGED <<throttleOptions, dragVars, rectVars>>

\* the owner calls cancel
FairCancel ==
    /\ throttle' = Rebase(throttleCancel(FreshExecs(throttle)))
    /\ throttleOp' = ThrottleOpCleared("cancel", throttle)
    /\ UNCHANGED <<throttleOptions, dragVars, rectVars>>

\* the owner calls flush
FairFlush ==
    /\ throttle' = Rebase(flush(FreshExecs(throttle)))
    /\ throttleOp' = ThrottleOp("flush")
    /\ UNCHANGED <<throttleOptions, dragVars, rectVars>>

\* the browser runs the callback of a timeout that is due, on time or late
FairTimerFire ==
    \E tm \in throttle.timers :
        /\ tm.due <= throttle.now
        /\ throttle' = Rebase(trailingTimerCallback(
                           [FreshExecs(throttle) EXCEPT !.timers = @ \ {tm}]))
        /\ throttleOp' = ThrottleOp("timer")
        /\ UNCHANGED <<throttleOptions, dragVars, rectVars>>

\* a millisecond passes
FairTick ==
    /\ throttle' = Rebase([FreshExecs(throttle) EXCEPT !.now = @ + 1])
    /\ throttleOp' = ThrottleOp("tick")
    /\ UNCHANGED <<throttleOptions, dragVars, rectVars>>

\* the component unmounts: the cleanup of the effect, cancel, runs
FairUnmount ==
    /\ throttle.mounted
    /\ throttle' = Rebase([throttleCancel(FreshExecs(throttle)) EXCEPT !.mounted = FALSE])
    /\ throttleOp' = ThrottleOpCleared("unmount", throttle)
    /\ UNCHANGED <<throttleOptions, dragVars, rectVars>>

FairThrottleNext ==
    \/ FairRun
    \/ FairCancel
    \/ FairFlush
    \/ FairTimerFire
    \/ FairTick
    \/ FairUnmount

FairThrottleInit == ThrottleAloneInit

\* time passes and a timeout that stays due is run: setTimeout runs its
\* callback some time after the delay unless clearTimeout removes it first
SpecThrottleFair ==
    /\ FairThrottleInit
    /\ [][FairThrottleNext]_vars
    /\ WF_vars(FairTick)
    /\ WF_vars(FairTimerFire)


(***************************************************************************)
(* Properties of useDragResize                                             *)
(***************************************************************************)
Attached == {t \in Handles : drag.listeners[t] # <<>>}

InBounds(w, h) ==
    /\ params.minWidth <= w /\ w <= params.maxWidth
    /\ params.minHeight <= h
    /\ IsSome(params.maxHeight) => h <= Val(params.maxHeight)

AcceptedMoves == {i \in 1..Len(drag.moves) : drag.moves[i].accepted}

\* C1: whenever no session is active (Idle: pointer-up done, or unmounted),
\* no pointermove/pointerup handler the controller registered is still
\* attached to any handle.
C1_NoHandlerAttachedWhenIdle == ~Resizing => Attached = {}

\* C3: a pointer-move dispatched while no session is active (after the
\* pointer-up that ended the gesture, or after an unmount in mid-gesture) is
\* accepted by no handler: it changes neither width nor height.
C3_NoChangeAfterRelease ==
    (dragOp.name = "move" /\ ~dragOp.wasResizing) => AcceptedMoves = {}

\* C4 as stated: in every state whose dimensions were not written by
\* setDimensions, the initial state included, the current width is within
\* [minWidth, maxWidth] and the current height within [minHeight, maxHeight].
C4_AlwaysWithinBounds ==
    drag.wroteDims # "setDimensions" => InBounds(currentWidth, currentHeight)

\* C4 as amended: the current width and height are never below the minimums;
\* dimensions written by an accepted pointer-move are within the bounds;
\* dimensions written by nobody yet are the initial ones, as given.
C4_WithinBoundsOnceMoved ==
    /\ currentWidth >= params.minWidth /\ currentHeight >= params.minHeight
    /\ drag.wroteDims = "move" => InBounds(currentWidth, currentHeight)
    /\ drag.wroteDims = "initial" => drag.dimensions = InitialDimensions

C4_Witness ==
    /\ drag.wroteDims = "move"
    /\ ~InBounds(InitialDimensions.width, InitialDimensions.height)
    /\ InBounds(currentWidth, currentHeight)
    /\ IsSome(params.maxHeight)

\* C5 as stated: during a gesture a pointer-move whose proposed width is
\* above maxWidth leaves the width exactly maxWidth, one whose proposed width
\* is below minWidth leaves it exactly minWidth.
C5_ProposedBeyondBoundClamps ==
    (dragOp.name = "move" /\ dragOp.wasResizing /\ drag.moves # <<>>) =>
        LET m == drag.moves[Len(drag.moves)]
        IN  /\ m.proposed > params.maxWidth => currentWidth = params.maxWidth
            /\ m.proposed < params.minWidth => currentWidth = params.minWidth

\* C5 as amended: a pointer-move whose grid-snapped width is above maxWidth
\* (below minWidth) is constrained to exactly maxWidth (minWidth); that is
\* the width it leaves if it is accepted, and if it is rejected as a
\* sub-pixel change the width it leaves rounds to the same whole pixel.
C5_SnappedBeyondBoundClamps ==
    (dragOp.name = "move" /\ drag.moves # <<>>) =>
        LET m == drag.moves[Len(drag.moves)]
            bound == IF m.snapped > params.maxWidth THEN params.maxWidth
                     ELSE params.minWidth
        IN  (m.snapped > params.maxWidth \/ m.snapped < params.minWidth) =>
                /\ m.next.width = bound
                /\ m.accepted => currentWidth = bound
                /\ ~m.accepted => MathRound(currentWidth) = MathRound(bound)

C5_Witness ==
    /\ dragOp.name = "move" /\ dragOp.wasResizing /\ drag.moves # <<>>
    /\ drag.moves[Len(drag.moves)].snapped > params.maxWidth
    /\ drag.moves[Len(drag.moves)].accepted
    /\ params.gridPercent # 100
    /\ currentWidth = params.maxWidth

C7_FrameCarriesLastMove ==
    /\ Len(drag.frames) <= 1
    /\ (dragOp.name = "move" /\ params.live /\ params.hasCallback
            /\ AcceptedMoves # {}) => drag.frames # <<>>
    /\ dragOp.name = "frame" =>
            /\ Len(drag.notified) = 1
            /\ IsSome(drag.lastMove)
            /\ drag.notified[1].dims = Val(drag.lastMove)

\* C7 as amended: ... a frame delivers exactly one onDimensionsChange call,
\* carrying the dimensions current when the frame runs: those of the last
\* accepted move unless setDimensions has replaced them since.
C7_FrameCarriesCurrent ==
    /\ Len(drag.frames) <= 1
    /\ IsSome(drag.rafIdRef) <=> drag.frames # <<>>
    /\ (dragOp.name = "move" /\ params.live /\ params.hasCallback
            /\ AcceptedMoves # {}) => drag.frames = <<Val(drag.rafIdRef)>>
    /\ dragOp.name = "frame" =>
            /\ Len(drag.notified) = 1
            /\ drag.notified[1].from = "frame"
            /\ drag.notified[1].dims = drag.dimensions
            /\ drag.wroteDims = "move" => drag.dimensions = Val(drag.lastMove)

C7_Witness ==
    /\ dragOp.name = "frame"
    /\ drag.batched = 2
    /\ Len(drag.notified) = 1
    /\ drag.wroteDims = "move"
    /\ drag.notified[1].dims = Val(drag.lastMove)

\* C8: isResizing is false initially, true after a pointer-down, whose
\* baseline is the current dimensions clamped to the bounds; a pointer-move
\* leaves it as it is, and so does everything but the pointer-up on the
\* handle of the active session, which makes it false; it is false
\* afterwards until the next pointer-down.
C8_ResizingCycle ==
    drag.mounted =>
    /\ dragOp.name = "init" => ~drag.isResizing
    /\ dragOp.name = "down" =>
            /\ drag.isResizing
            /\ drag.startDimsRef =
                 [width  |-> clampNum(drag.dimensions.width, params.minWidth,
                                      params.maxWidth),
                  height |-> clamp(drag.dimensions.height, params.minHeight,
                                   params.maxHeight)]
    /\ (drag.mounted /\ dragOp.name \in {"move", "frame", "setDimensions"}) =>
            drag.isResizing = dragOp.wasResizing
    /\ dragOp.name = "up" =>
            drag.isResizing = (dragOp.wasResizing /\ ~dragOp.onSession)

(***************************************************************************)
(* Properties of useContainerRect                                          *)
(***************************************************************************)
\* the scroll handlers stored for target t, in the order they were stored
StoredScrollHandlers(t) ==
    LET on == SelectSeq(tracker.scrollHandlersRef, LAMBDA s : s.target = t)
    IN  [i \in 1..Len(on) |-> on[i].handler]

StoredScrollTargets ==
    [i \in 1..Len(tracker.scrollHandlersRef) |-> tracker.scrollHandlersRef[i].target]

\* C2: the window-resize listeners, the scroll listeners and the connected
\* resize observers the browser holds are exactly those the tracker stores,
\* and those are the ones of the attached element: one observer on it, one
\* window listener, one scroll listener per scroll parent when trackPosition
\* is set; with no element attached, or after unmount, there are none.
C2_RegisteredAreStored ==
    /\ tracker.resizeListeners =
           IF IsSome(tracker.resizeHandlerRef)
           THEN <<Val(tracker.resizeHandlerRef)>> ELSE <<>>
    /\ \A t \in ScrollTargets : tracker.scrollListeners[t] = StoredScrollHandlers(t)
    /\ tracker.observers =
           IF IsSome(tracker.roRef) /\ IsSome(tracker.nodeRef)
           THEN {[id |-> Val(tracker.roRef), el |-> Val(tracker.nodeRef)]} ELSE {}
    /\ IsSome(tracker.roRef) = IsSome(tracker.nodeRef)
    /\ IsSome(tracker.resizeHandlerRef) = IsSome(tracker.nodeRef)
    /\ StoredScrollTargets =
           IF IsSome(tracker.nodeRef) /\ options.trackPosition
           THEN getScrollParents(tracker.nodeRef) ELSE <<>>
    /\ ~tracker.mounted => ~IsSome(tracker.nodeRef)

C2_Witness ==
    /\ trackOp.name = "attach"
    /\ trackOp.prevNode = Some("e1")
    /\ tracker.nodeRef = Some("e2")
    /\ options.trackPosition
    /\ StoredScrollTargets = <<"s2", Window>>
    /\ tracker.scrollListeners["s1"] = <<>>
    /\ Len(tracker.scrollListeners[Window]) = 1

\* C9: every measurement that reads a geometry whose rounded x, y, width and
\* height equal those of the published rect leaves the published rect the
\* very same object, whatever operation made the measurement; the published
\* rect is what the last measurement left.
C9_SameRoundedSameObject ==
    /\ \A i \in 1..Len(tracker.measures) :
           LET m == tracker.measures[i]
           IN  /\ same(m.prev, m.r) => m.next = m.prev
               /\ i = Len(tracker.measures) => tracker.rect = m.next
    /\ tracker.rectRef = tracker.rect

C9_Witness ==
    /\ trackOp.name = "frame"
    /\ Len(tracker.measures) = 1
    /\ tracker.measures[1].r.x # tracker.measures[1].prev.x
    /\ tracker.measures[1].r.right # tracker.measures[1].prev.right
    /\ same(tracker.measures[1].prev, tracker.measures[1].r)
    /\ tracker.rect = tracker.measures[1].prev
    /\ tracker.rect.obj # DEFAULT_RECT.obj

\* C10: at most one frame request is pending at any time, it is the one the
\* tracker holds in rafIdRef, and a frame makes at most one measurement,
\* however many change notifications came before it.
C10_OnePendingMeasurement ==
    /\ Len(tracker.frames) <= 1
    /\ tracker.frames # <<>> => tracker.frames = <<Val(tracker.rafIdRef)>>
    /\ trackOp.name = "frame" => Len(tracker.measures) <= 1

C10_Witness ==
    /\ trackOp.name = "frame"
    /\ tracker.flushed = 2
    /\ Len(tracker.measures) = 1

\* the members of the scroll-parent set of an optional element
ScrollParentSet(el) ==
    {getScrollParents(el)[i] : i \in 1..Len(getScrollParents(el))}

\* C11: every step that ends with no element attached (attach(null), unmount,
\* and every frame, resize notification, window resize, scroll or layout
\* change after them) leaves no frame request pending, makes no measurement
\* and leaves the published rect as it was.
C11_NothingRunsWhileDetached ==
    [][~IsSome(tracker'.nodeRef) =>
          /\ tracker'.frames = <<>>
          /\ tracker'.measures = <<>>
          /\ tracker'.rect = tracker.rect
          /\ tracker'.rectRef = tracker.rectRef]_vars

\* an event arrives after a detach that cancelled a scheduled measurement
C11_Witness ==
    /\ trackOp.name \in {"window-resize", "scroll"}
    /\ ~IsSome(tracker.nodeRef)
    /\ tracker.notifications > 0
    /\ tracker.frames = <<>>
    /\ tracker.rect # DEFAULT_RECT

\* C12: directly after attach(element), with no frame run, exactly one
\* measurement of that element has been made, and the published rect holds
\* the element's geometry in a new object unless that geometry is
\* rounded-equal to the rect published before, which then stays.
C12_AttachMeasuresAtOnce ==
    (trackOp.name = "attach" /\ IsSome(tracker.nodeRef)) =>
        /\ Len(tracker.measures) = 1
        /\ tracker.frames = <<>>
        /\ LET m == tracker.measures[1]
               r == getBoundingClientRect(Val(tracker.nodeRef))
           IN  /\ m.el = Val(tracker.nodeRef)
               /\ m.r = r
               /\ same(m.prev, r) => tracker.rect = m.prev
               /\ ~same(m.prev, r) =>
                      /\ [f \in DOMAIN r |-> tracker.rect[f]] = r
                      /\ tracker.rect.obj # m.prev.obj

C12_Witness ==
    /\ trackOp.name = "attach"
    /\ tracker.nodeRef = Some("e1")
    /\ tracker.measures[1].prev = DEFAULT_RECT
    /\ tracker.rect.width = layout["e1"].width
    /\ tracker.rect.right = layout["e1"].x + layout["e1"].width
    /\ tracker.frames = <<>>

\* C13: with trackPosition false no scroll listener is registered and a
\* scroll event schedules nothing; with trackPosition true attach(element)
\* leaves exactly one scroll listener on each scroll parent of the element,
\* the window included, and none elsewhere, and a scroll event on one of them
\* leaves exactly one frame request pending; no scroll event measures.
C13_ScrollTracking ==
    [][/\ \A t \in ScrollTargets :
              Len(tracker'.scrollListeners[t]) =
                  IF options.trackPosition /\ t \in ScrollParentSet(tracker'.nodeRef)
                        /\ IsSome(tracker'.nodeRef)
                  THEN 1 ELSE 0
       /\ \A t \in ScrollTargets : Scroll(t) =>
              /\ tracker'.measures = <<>>
              /\ tracker'.rect = tracker.rect
              /\ IF options.trackPosition /\ IsSome(tracker.nodeRef)
                       /\ t \in ScrollParentSet(tracker.nodeRef)
                 THEN /\ Len(tracker'.frames) = 1
                      /\ tracker'.frames = <<Val(tracker'.rafIdRef)>>
                 ELSE tracker'.frames = tracker.frames]_vars

C13_Witness ==
    /\ trackOp.name = "scroll"
    /\ options.trackPosition
    /\ tracker.nodeRef = Some("e1")
    /\ Len(tracker.scrollListeners["s1"]) = 1
    /\ Len(tracker.scrollListeners[Window]) = 1
    /\ tracker.scrollListeners["s2"] = <<>>
    /\ tracker.notifications = 2
    /\ Len(tracker.frames) = 1

\* the grid step of the gesture on handle t: gridPercent/100 x boundaryWidth,
\* boundaryWidth defaulting to maxWidth
GridStep(t) ==
    (params.gridPercent * OrElse(HandleProps[t].boundaryWidth, params.maxWidth)) \div 100

\* C14 as stated: with gridPercent below 100 the width after any pointer-move
\* of a gesture is a multiple of the grid step.
C14_WidthOnGrid ==
    (dragOp.name = "move" /\ dragOp.wasResizing /\ params.gridPercent < 100) =>
        \A t \in handles : currentWidth % GridStep(t) = 0

\* C14 as amended: with gridPercent below 100 every pointer-move snaps the
\* proposed width to the nearest multiple of the grid step and then clamps it
\* to [minWidth, maxWidth]; an accepted move leaves that width, which is a
\* multiple of the step, or minWidth, or maxWidth.
C14_SnappedThenClamped ==
    (dragOp.name = "move" /\ params.gridPercent < 100) =>
        \A t \in handles : \A i \in 1..Len(drag.moves) :
            LET m == drag.moves[i]
            IN  /\ m.snapped % GridStep(t) = 0
                /\ 2 * (m.snapped - m.proposed) <= GridStep(t)
                /\ 2 * (m.proposed - m.snapped) < GridStep(t)
                /\ m.next.width = clampNum(m.snapped, params.minWidth, params.maxWidth)
                /\ (m.accepted /\ i = Len(drag.moves)) =>
                       /\ currentWidth = m.next.width
                       /\ \/ currentWidth % GridStep(t) = 0
                          \/ currentWidth \in {params.minWidth, params.maxWidth}

C14_Witness ==
    /\ dragOp.name = "move" /\ dragOp.wasResizing
    /\ params.gridPercent = 25
    /\ Len(drag.moves) = 1
    /\ drag.moves[1].accepted
    /\ drag.moves[1].snapped # drag.moves[1].proposed
    /\ \E t \in handles : currentWidth % GridStep(t) = 0
    /\ currentWidth \notin {params.minWidth, params.maxWidth}

\* C15: with contentWidth and contentHeight both given, after every accepted
\* pointer-move the height is the new width times contentHeight/contentWidth,
\* unless that product lies below minHeight or above maxHeight, and then it is
\* that bound.
C15_AspectLockedHeight ==
    (dragOp.name = "move" /\ hasAspect /\ AcceptedMoves # {}) =>
        LET w  == currentWidth
            h  == currentHeight
            cw == Val(params.contentWidth)
            ch == Val(params.contentHeight)
            above == IsSome(params.maxHeight) /\ w * ch > Val(params.maxHeight) * cw
            below == w * ch < params.minHeight * cw
        IN  /\ below => h = params.minHeight
            /\ (above /\ ~below) => h = Val(params.maxHeight)
            /\ (~above /\ ~below) => h * cw = w * ch

\* the example of the claim: 16:9, bounds 100..500, a drag to width 320
C15_Witness ==
    /\ dragOp.name = "move" /\ dragOp.wasResizing
    /\ AcceptedMoves # {}
    /\ params.contentWidth = Some(16) /\ params.contentHeight = Some(9)
    /\ currentWidth = Px(320)
    /\ currentHeight = Px(180)

\* the controller as it is but for the direction of the gesture, reversed
Reversed(S) == [S EXCEPT !.dirRef = IF @ = "left" THEN "right" ELSE "left"]

\* C16: for every pointer-move of a gesture, the same gesture in the other
\* direction (same baseline, same pointer-down position) gives the same
\* proposed, snapped and resulting dimensions for the mirrored pointer
\* position (displacement -d), and for the same pointer position a width delta
\* of the opposite sign whenever neither width was altered by snapping or
\* clamping.
C16_DirectionSymmetry ==
    [][\A t \in Handles : \A x \in PageXMove :
          (dragOp'.name = "move" /\ Resizing /\ PointerMove(t, x)) =>
              LET mirrored == dispatchEvent(Reversed(Fresh(drag)), t, "pointermove",
                                            2 * drag.originXRef - x)
                  opposite == dispatchEvent(Reversed(Fresh(drag)), t, "pointermove", x)
                  base     == drag.startDimsRef.width
              IN  /\ mirrored.moves = drag'.moves
                  /\ mirrored.dimensions = drag'.dimensions
                  /\ Len(opposite.moves) = Len(drag'.moves)
                  /\ \A i \in 1..Len(drag'.moves) :
                        LET a == drag'.moves[i]
                            b == opposite.moves[i]
                        IN  (a.next.width = a.proposed /\ b.next.width = b.proposed) =>
                                a.next.width - base = -(b.next.width - base)]_vars

\* a left-direction move that widened the element by the pointer's leftward
\* displacement, unaltered by snapping and clamping
C16_Witness ==
    /\ dragOp.name = "move" /\ dragOp.wasResizing
    /\ drag.dirRef = "left"
    /\ Len(drag.moves) = 1
    /\ drag.moves[1].accepted
    /\ drag.moves[1].next.width = drag.moves[1].proposed
    /\ drag.moves[1].proposed = drag.startDimsRef.width + Px(100)
    /\ currentWidth = drag.startDimsRef.width + Px(100)

\* the dimensions after the first i moves of a log, pre being those before it
RECURSIVE DimsAfter(_, _, _)
DimsAfter(pre, moves, i) ==
    IF i = 0 THEN pre
    ELSE IF moves[i].accepted THEN moves[i].next
    ELSE DimsAfter(pre, moves, i - 1)

RoundedEqual(a, b) ==
    /\ MathRound(a.width) = MathRound(b.width)
    /\ MathRound(a.height) = MathRound(b.height)

\* C17: each move handler a pointer-move runs accepts its result exactly when
\* the rounded width or the rounded height differs from that of the
\* dimensions current at that moment; a pointer-move none of whose handlers
\* accepts leaves the dimensions and the pending frame requests as they were
\* and calls nothing, and one a handler accepts leaves the last accepted
\* result as the dimensions.
C17_AcceptedIffRoundedDiffers ==
    [][dragOp'.name = "move" =>
          /\ \A i \in 1..Len(drag'.moves) :
                drag'.moves[i].accepted =
                    ~RoundedEqual(drag'.moves[i].next,
                                  DimsAfter(drag.dimensions, drag'.moves, i - 1))
          /\ drag'.dimensions =
                 DimsAfter(drag.dimensions, drag'.moves, Len(drag'.moves))
          /\ drag'.notified = <<>>
          /\ (\A i \in 1..Len(drag'.moves) : ~drag'.moves[i].accepted) =>
                 /\ drag'.dimensions = drag.dimensions
                 /\ drag'.dimsRef = drag.dimsRef
                 /\ drag'.frames = drag.frames
                 /\ drag'.rafIdRef = drag.rafIdRef]_vars

\* a move rejected although its result differs from the dimensions by a
\* quarter pixel
C17_Witness ==
    /\ dragOp.name = "move" /\ dragOp.wasResizing
    /\ Len(drag.moves) = 1
    /\ ~drag.moves[1].accepted
    /\ drag.moves[1].next.width # drag.dimensions.width
    /\ RoundedEqual(drag.moves[1].next, drag.dimensions)
    /\ drag.frames = <<>>

\* C18 as stated: after setDimensions(d) the reported currentWidth is d.width
\* and the reported currentHeight is d.height, for any d.
C18_ReportsOverrideAsGiven ==
    [][\A d \in Overrides : SetDimensions(d) =>
          /\ currentWidth' = d.width
          /\ currentHeight' = d.height]_vars

\* C18 as amended: after setDimensions(d) the dimensions held are d as given,
\* with no constraint of the pipeline applied, and the reported currentWidth
\* and currentHeight are d.width and d.height raised to minWidth and
\* minHeight; maxWidth and maxHeight do not limit them.
C18_ReportsOverrideAboveMin ==
    [][\A d \in Overrides : SetDimensions(d) =>
          /\ drag'.dimensions = d
          /\ drag'.dimsRef = d
          /\ currentWidth' = Max(d.width, params.minWidth)
          /\ currentHeight' = Max(d.height, params.minHeight)]_vars

\* an override wider than maxWidth and lower than minHeight
C18_Witness ==
    /\ dragOp.name = "setDimensions"
    /\ drag.dimensions \in Overrides
    /\ drag.dimensions.width > params.maxWidth
    /\ drag.dimensions.height < params.minHeight
    /\ currentWidth = drag.dimensions.width
    /\ currentHeight = params.minHeight

\* listener h is registered on some handle
Registered(L, h) ==
    \E t \in Handles : \E j \in 1..Len(L[t]) : L[t][j] = h

\* C19: the unmount leaves no frame notification pending and the move and up
\* listeners of the active session registered no longer, and no step after it
\* leaves a frame notification pending or calls onDimensionsChange.
C19_NothingAfterUnmount ==
    [][~drag'.mounted =>
          /\ drag'.frames = <<>>
          /\ drag'.notified = <<>>
          /\ drag.mounted =>
                \A h \in {drag.activeListenersRef.moveHandler,
                          drag.activeListenersRef.upHandler} :
                    IsSome(h) => ~Registered(drag'.listeners, Val(h))]_vars

(***************************************************************************)
(* Properties of useThrottle                                               *)
(***************************************************************************)
\* the time between execution e and the execution before it
Gap(e) == e.at - Val(e.previous)

\* C20 as stated: with delay > 0 any two executions of the callback are at
\* least delay apart, whatever run, cancel and flush calls are made.
C20_ExecutionsDelayApart ==
    throttleOptions.delay > 0 =>
        \A i \in 1..Len(throttle.execs) :
            IsSome(throttle.execs[i].previous) =>
                Gap(throttle.execs[i]) >= throttleOptions.delay

\* C20 as amended: with delay > 0 an execution made by a run call or by the
\* trailing timer comes at least delay after the execution before it, unless
\* cancel ran in between; only flush and the first run after a cancel execute
\* sooner.
C20_UnforcedExecutionsDelayApart ==
    throttleOptions.delay > 0 =>
        \A i \in 1..Len(throttle.execs) :
            LET e == throttle.execs[i]
            IN  (IsSome(e.previous) /\ e.by # "flush" /\ ~e.cancelled) =>
                    Gap(e) >= throttleOptions.delay

\* a trailing execution exactly delay after the execution that opened the
\* window
C20_Witness ==
    /\ throttleOptions.delay > 0
    /\ throttleOp.name = "timer"
    /\ Len(throttle.execs) = 1
    /\ throttle.execs[1].by = "timer"
    /\ IsSome(throttle.execs[1].previous)
    /\ ~throttle.execs[1].cancelled
    /\ Gap(throttle.execs[1]) = throttleOptions.delay

\* a run call made now opens a new window as the contract words it: it is the
\* first call ever, or the last execution is at least delay old
OpensWindow(T) ==
    \/ T.runs = 0
    \/ IsSome(T.lastExec) /\ T.now - Val(T.lastExec) >= throttleOptions.delay

\* the only timeout the browser holds is the one timerRef names, due at `due`
OnlyTimer(T, due) ==
    /\ IsSome(T.timerRef)
    /\ T.timers = {[id |-> Val(T.timerRef), due |-> due]}

\* what C21 says of a step, with the calls that open a window when leading is
\* false being those for which opensTrailing holds before the call
NewWindowStep(opensTrailing) ==
    throttleOptions.delay > 0 =>
        /\ (throttleOp'.name = "run" /\ OpensWindow(throttle)
               /\ throttleOptions.leading) =>
              /\ Len(throttle'.execs) = 1
              /\ throttle'.execs[1].at = throttle.now
              /\ throttle'.execs[1].args = throttle'.runs
              /\ throttle'.execs[1].by = "run"
        /\ (throttleOp'.name = "run" /\ opensTrailing
               /\ ~throttleOptions.leading /\ throttleOptions.trailing) =>
              /\ throttle'.execs = <<>>
              /\ OnlyTimer(throttle', throttle.now + throttleOptions.delay)
              /\ throttle'.lastArgsRef = Some(throttle'.runs)
        /\ (throttleOp'.name = "timer"
               /\ ~throttleOptions.leading /\ throttleOptions.trailing) =>
              /\ Len(throttle'.execs) = 1
              /\ throttle'.execs[1].at = throttle.now
              /\ throttle'.execs[1].args = throttle.runs
              /\ throttle'.timers = {}
              /\ ~pending(throttle')

C21_JoinsWindow ==
    /\ throttleOptions.delay > 0
    /\ ~throttleOptions.leading /\ throttleOptions.trailing
    /\ throttleOp.name = "run"
    /\ IsSome(throttle.lastExec)
    /\ \E tm \in throttle.timers :
          /\ tm.due < throttle.now + throttleOptions.delay
          /\ tm.due - throttleOptions.delay >= Val(throttle.lastExec) + throttleOptions.delay

InsideWindow(T) ==
    /\ IsSome(T.lastExec)
    /\ ~T.cancelled
    /\ T.now - Val(T.lastExec) < throttleOptions.delay

\* C22: with leading and trailing and delay > 0 a run call inside the window
\* opened by an execution executes nothing and leaves exactly one timeout, due
\* at the end of that window, however many calls the window gets; the callback
\* of that timeout executes exactly once, with the arguments of the last run
\* call made before it, and leaves nothing pending: a burst inside one window
\* makes two executions, with the first and the last arguments.  Where the
\* browser runs the timeout late and a run call comes first, that call
\* executes at once in its place, with its own arguments.
C22_OneTrailingExecution ==
    [][(throttleOptions.delay > 0 /\ throttleOptions.leading
           /\ throttleOptions.trailing) =>
          /\ (throttleOp'.name = "run" /\ InsideWindow(throttle)) =>
                /\ throttle'.execs = <<>>
                /\ OnlyTimer(throttle', Val(throttle.lastExec) + throttleOptions.delay)
                /\ throttle'.lastArgsRef = Some(throttle'.runs)
          /\ (throttleOp'.name = "run" /\ pending(throttle)
                 /\ ~InsideWindow(throttle)) =>
                /\ Len(throttle'.execs) = 1
                /\ throttle'.execs[1].args = throttle'.runs
                /\ throttle'.timers = {}
                /\ ~pending(throttle')
          /\ throttleOp'.name = "timer" =>
                /\ OnlyTimer(throttle, Val(throttle.lastExec) + throttleOptions.delay)
                /\ Len(throttle'.execs) = 1
                /\ throttle'.execs[1].at = throttle.now
                /\ throttle'.execs[1].by = "timer"
                /\ throttle'.execs[1].args = throttle.runs
                /\ throttle'.timers = {}
                /\ ~pending(throttle')]_vars

\* a burst of three calls: the first executed at 0, and the timeout executes
\* at the end of the window with the arguments of the third
C22_Witness ==
    /\ throttleOptions.delay > 0
    /\ throttleOptions.leading /\ throttleOptions.trailing
    /\ throttleOp.name = "timer"
    /\ throttle.runs = 3
    /\ Len(throttle.execs) = 1
    /\ throttle.execs[1].previous = Some(0)
    /\ ~throttle.execs[1].cancelled
    /\ throttle.execs[1].at = throttleOptions.delay
    /\ throttle.execs[1].args = 3

\* C23: with leading, no trailing and delay > 0 a run call inside a window is
\* dropped: it executes nothing and schedules nothing; no timeout is ever set
\* and pending() is false in every state; and every execution, whenever it
\* comes, is made by a run call with that call's own arguments, so the
\* arguments of a dropped call are never passed to the callback.
C23_InWindowCallsDropped ==
    [][(throttleOptions.delay > 0 /\ throttleOptions.leading
           /\ ~throttleOptions.trailing) =>
          /\ throttle'.timers = {}
          /\ ~pending(throttle')
          /\ (throttleOp'.name = "run" /\ InsideWindow(throttle)) =>
                throttle'.execs = <<>>
          /\ \A i \in 1..Len(throttle'.execs) :
                /\ throttleOp'.name = "run"
                /\ throttle'.execs[i].by = "run"
                /\ throttle'.execs[i].args = throttle'.runs
                /\ ~InsideWindow(throttle)]_vars

\* call 1 executed at 0, call 2 was dropped inside its window, and two delays
\* later the arguments of call 2 are still stored and were never executed
C23_Witness ==
    /\ throttleOptions.delay > 0
    /\ throttleOptions.leading /\ ~throttleOptions.trailing
    /\ throttleOp.name = "tick"
    /\ throttle.runs = 2
    /\ throttle.lastArgsRef = Some(2)
    /\ throttle.lastExec = Some(0)
    /\ ~throttle.cancelled
    /\ throttle.now >= 2 * throttleOptions.delay

\* C24: with neither leading nor trailing and delay > 0 the callback is never
\* executed, whatever run, flush and cancel calls are made and however much
\* time passes.
C24_NeverExecutes ==
    (throttleOptions.delay > 0 /\ ~throttleOptions.leading
        /\ ~throttleOptions.trailing) =>
       /\ throttle.execs = <<>>
       /\ throttle.lastExec = None
       /\ throttle.timers = {}

\* two run calls, at least a delay of time, and a flush with the arguments of
\* the second call stored: nothing was executed
C24_Witness ==
    /\ throttleOptions.delay > 0
    /\ ~throttleOptions.leading /\ ~throttleOptions.trailing
    /\ throttleOp.name = "flush"
    /\ throttle.runs = 2
    /\ throttle.lastArgsRef = Some(2)
    /\ throttle.now >= throttleOptions.delay
    /\ throttle.lastExec = None

\* nothing is scheduled: the browser holds no timeout and pending() is false
NothingScheduled(T) == T.timers = {} /\ ~pending(T)

\* C25: cancel executes nothing and leaves nothing scheduled, and from a state
\* with nothing scheduled no step other than a run call executes the callback
\* or schedules anything: after cancel the trailing execution scheduled
\* before it never happens, however much time passes, until run is called
\* again.
C25_CancelledNeverRuns ==
    [][/\ throttleOp'.name = "cancel" =>
            /\ NothingScheduled(throttle')
            /\ throttle'.execs = <<>>
       /\ (NothingScheduled(throttle) /\ throttleOp'.name # "run") =>
            /\ NothingScheduled(throttle')
            /\ throttle'.execs = <<>>]_vars

\* leading false: the first run call scheduled its trailing execution, cancel
\* removed it, and two delays later nothing was ever executed
C25_Witness ==
    /\ throttleOptions.delay > 0
    /\ ~throttleOptions.leading /\ throttleOptions.trailing
    /\ throttle.mounted
    /\ throttleOp.name = "tick"
    /\ throttle.runs = 1
    /\ throttle.cancelled
    /\ throttle.lastArgsRef = None
    /\ throttle.lastExec = None
    /\ NothingScheduled(throttle)
    /\ throttle.now >= 2 * throttleOptions.delay

\* C26: flush with a trailing execution pending executes the callback exactly
\* once, in the same step, with the arguments of the latest run call, and
\* leaves pending() false and no timeout with the browser, so that the
\* flushed timeout cannot execute later; flush with nothing pending executes
\* nothing and changes no state.
C26_Flush ==
    [][throttleOp'.name = "flush" =>
          IF pending(throttle)
          THEN /\ Len(throttle'.execs) = 1
               /\ throttle'.execs[1].at = throttle.now
               /\ throttle'.execs[1].by = "flush"
               /\ throttle'.execs[1].args = throttle.runs
               /\ NothingScheduled(throttle')
          ELSE throttle' = FreshExecs(throttle)]_vars

\* the first call executed at 0, the second is pending, and flush executes
\* it before the window ends
C26_Witness ==
    /\ throttleOptions.delay > 0
    /\ throttleOp.name = "flush"
    /\ throttle.runs = 2
    /\ Len(throttle.execs) = 1
    /\ throttle.execs[1].by = "flush"
    /\ throttle.execs[1].args = 2
    /\ throttle.execs[1].previous = Some(0)
    /\ throttle.execs[1].at < throttleOptions.delay
    /\ NothingScheduled(throttle)

\* C27: pending() is false in the initial state, and in every reachable state
\* it is true exactly if the browser holds a timeout of the hook, one that
\* has not fired and was not flushed or cancelled; the browser never holds
\* more than one, and the one it holds is the one timerRef names.
C27_PendingIffScheduled ==
    /\ pending(throttle) <=> throttle.timers # {}
    /\ Cardinality(throttle.timers) <= 1
    /\ \A tm \in throttle.timers : throttle.timerRef = Some(tm.id)
    /\ throttleOp.name \in {"init", "timer", "flush", "cancel", "unmount"} =>
           ~pending(throttle)

\* a trailing execution is scheduled after an earlier one has fired
C27_Witness ==
    /\ throttleOp.name = "run"
    /\ pending(throttle)
    /\ Cardinality(throttle.timers) = 1
    /\ throttle.lastExec = Some(throttleOptions.delay)
    /\ throttle.now > throttleOptions.delay

\* C28: with delay <= 0, whatever the leading and trailing options, every run
\* call executes the callback once within the call, with that call's
\* arguments (so in call order), no other step executes it, and nothing is
\* ever scheduled.
C28_NoThrottling ==
    [][throttleOptions.delay <= 0 =>
          /\ NothingScheduled(throttle')
          /\ IF throttleOp'.name = "run"
             THEN /\ Len(throttle'.execs) = 1
                  /\ throttle'.execs[1].at = throttle.now
                  /\ throttle'.execs[1].by = "run"
                  /\ throttle'.execs[1].args = throttle'.runs
                  /\ throttle'.runs = throttle.runs + 1
             ELSE throttle'.execs = <<>>]_vars

\* a negative delay with leading and trailing false: the second call executes
\* in the millisecond of the first
C28_Witness ==
    /\ throttleOptions.delay < 0
    /\ ~throttleOptions.leading /\ ~throttleOptions.trailing
    /\ throttleOp.name = "run"
    /\ Len(throttle.execs) = 1
    /\ throttle.execs[1].args = 2
    /\ throttle.execs[1].previous = Some(throttle.now)

\* C29: the unmount executes nothing and leaves nothing scheduled, whether or
\* not a trailing execution was pending; and once unmounted, from a state
\* with nothing scheduled no step other than a run call executes the callback
\* or schedules anything.
C29_UnmountCancels ==
    [][/\ throttleOp'.name = "unmount" =>
            /\ ~throttle'.mounted
            /\ NothingScheduled(throttle')
            /\ throttle'.execs = <<>>
       /\ (~throttle.mounted /\ NothingScheduled(throttle)
              /\ throttleOp'.name # "run") =>
            /\ NothingScheduled(throttle')
            /\ throttle'.execs = <<>>]_vars

\* the unmount came with the trailing execution of the only run call pending
\* and removed it unexecuted
C29_Witness ==
    /\ throttleOptions.delay > 0
    /\ ~throttle.mounted
    /\ throttleOp.name = "unmount"
    /\ throttleOp.cleared
    /\ throttle.runs = 1
    /\ throttle.lastExec = None
    /\ NothingScheduled(throttle)

\* C30: every execution, leading, trailing or flushed, calls the callback of
\* the most recent render.
C30_CallsLatestCallback ==
    \A i \in 1..Len(throttle.execs) :
        throttle.execs[i].cb = throttle.callback

\* what holds of the callback called: once the effect of the latest render
\* has run, every execution calls the callback of that render
CallsCallbackOfLastEffect ==
    ~throttle.effectPending =>
        \A i \in 1..Len(throttle.execs) :
            throttle.execs[i].cb = throttle.callback

\* a render and its effect execute nothing and leave the window, the stored
\* arguments and the timeout as they were
RenderKeepsWindow ==
    [][throttleOp'.name \in {"render", "effect"} =>
          /\ throttle'.execs = <<>>
          /\ throttle'.timers = throttle.timers
          /\ throttle'.timerRef = throttle.timerRef
          /\ throttle'.lastInvokeRef = throttle.lastInvokeRef
          /\ throttle'.lastArgsRef = throttle.lastArgsRef]_vars

\* what C31 says of a pointer-move without aspect lock, free(h) being the
\* height a move handler computes from the last-known height h: each handler
\* computes free of the height current at that moment, and an accepted move
\* leaves that height
FreeHeightStep(free(_)) ==
    (dragOp'.name = "move" /\ ~hasAspect) =>
        /\ \A i \in 1..Len(drag'.moves) :
              drag'.moves[i].next.height =
                  free(DimsAfter(drag.dimsRef, drag'.moves, i - 1).height)
        /\ (\E i \in 1..Len(drag'.moves) : drag'.moves[i].accepted) =>
              drag'.dimensions.height = free(drag'.dimensions.height)

\* the last-known height raised to minHeight when below it
RaisedToMin(h) == Max(h, params.minHeight)

\* the last-known height raised to minHeight when below it and lowered to
\* maxHeight when above it
RaisedAndCapped(h) == clamp(Max(h, params.minHeight), params.minHeight, params.maxHeight)

C31_HeightLowered ==
    /\ dragOp.name = "move" /\ dragOp.wasResizing
    /\ ~hasAspect
    /\ IsSome(params.maxHeight)
    /\ Len(drag.moves) = 1
    /\ drag.moves[1].accepted
    /\ InitialDimensions.height > Val(params.maxHeight)
    /\ currentHeight = Val(params.maxHeight)

\* the fields of a rect
RectFields == {"x", "y", "width", "height", "top", "left", "right", "bottom"}

\* a field among F differs between rects a and b after rounding to whole pixels
RoundedDiffer(F, a, b) == \E f \in F : MathRound(a[f]) # MathRound(b[f])

\* what C32 says of the measurements of a step, F being the fields compared:
\* a measurement publishes a new rect object exactly when a field among F
\* differs after rounding, the new rect holds the unrounded geometry read,
\* and the rect published last is the current one
PublishesIffDiffer(F) ==
    /\ \A i \in 1..Len(tracker.measures) :
           LET m == tracker.measures[i]
           IN  /\ (m.next # m.prev) <=> RoundedDiffer(F, m.prev, m.r)
               /\ m.next # m.prev =>
                     /\ \A f \in RectFields : m.next[f] = m.r[f]
                     /\ m.next.obj # m.prev.obj
               /\ i = Len(tracker.measures) => tracker.rect = m.next

\* C32 as stated: a measurement publishes a new rect exactly when at least
\* one of x, y, width, height, top, left, right, bottom differs from the
\* published rect after rounding, and the new rect holds the unrounded
\* geometry.
C32_PublishesIffAnyOfEight == PublishesIffDiffer(RectFields)

\* C32 as amended: a measurement publishes a new rect exactly when at least
\* one of x, y, width, height differs from the published rect after rounding,
\* and the new rect holds the unrounded geometry, all eight fields; right and
\* bottom are not compared.
C32_PublishesIffAnyOfFour == PublishesIffDiffer({"x", "y", "width", "height"})

\* a frame measured a geometry off the whole pixels and published it unrounded
C32_Witness ==
    /\ trackOp.name = "frame"
    /\ Len(tracker.measures) = 1
    /\ tracker.measures[1].prev.obj # DEFAULT_RECT.obj
    /\ tracker.measures[1].next # tracker.measures[1].prev
    /\ tracker.rect.x % Unit # 0
    /\ tracker.rect.right = tracker.rect.x + tracker.rect.width
    /\ tracker.rect.right % Unit # 0

\* a measurement whose rounded right differs from that of the published rect
\* and which publishes nothing
C32_RightDiffersUnpublished ==
    /\ Len(tracker.measures) = 1
    /\ MathRound(tracker.measures[1].r.right) # MathRound(tracker.measures[1].prev.right)
    /\ tracker.measures[1].next = tracker.measures[1].prev
    /\ tracker.rect = tracker.measures[1].prev

\* the operation just done detached the element (attach(null)) or tore the
\* tracker down
DetachedOrTornDown(op, T) ==
    \/ op.name = "unmount"
    \/ op.name = "attach" /\ ~IsSome(T.nodeRef)

\* C33 as stated: when the tracked element is detached or the tracker is torn
\* down, the current rect is reset to the all-zero default rect.
C33_RectResetOnDetach ==
    DetachedOrTornDown(trackOp, tracker) => tracker.rect = DEFAULT_RECT

\* C33 as amended: when the tracked element is detached or the tracker is torn
\* down, nothing is measured and the current rect stays the very object
\* published last; it is the all-zero default only if it was so before, and
\* the default is otherwise only the rect of the initial state.
C33_RectKeptOnDetach ==
    [][DetachedOrTornDown(trackOp', tracker') =>
          /\ tracker'.rect = tracker.rect
          /\ tracker'.rectRef = tracker.rectRef
          /\ tracker'.measures = <<>>]_vars

\* an element was attached and measured, and after attach(null) the rect
\* still holds its geometry
C33_Witness ==
    /\ trackOp.name = "attach"
    /\ IsSome(trackOp.prevNode)
    /\ ~IsSome(tracker.nodeRef)
    /\ tracker.rect # DEFAULT_RECT
    /\ tracker.rect.width = layout[Val(trackOp.prevNode)].width
    /\ tracker.rect.x = layout[Val(trackOp.prevNode)].x

\* the proposed widths and the boundary widths snapWidth is applied to
SnapProposals ==
    {Px(-700), Px(-63), 0, Px(62), Px(270), Px(270) + Quarter, Px(300),
     Px(312), Px(313), Px(1000)}

SnapBoundaries == {Px(400), Px(500)}

\* s is what C34 says snapping the proposed width p to boundary width b
\* gives: p itself when gridPercent is 100 or more, else a multiple of
\* step = pct/100 * b no further from p than half a step, pct being
\* gridPercent raised to 1 when below it
SnappedAsSaid(s, p, b) ==
    LET pct == IF params.gridPercent < 1 THEN 1 ELSE params.gridPercent
    IN  IF params.gridPercent >= 100 THEN s = p
        ELSE /\ (100 * s) % (pct * b) = 0
             /\ 200 * (IF s >= p THEN s - p ELSE p - s) <= pct * b

\* the boundary width of the one handle in use
BoundaryInUse ==
    LET t == CHOOSE t \in handles : TRUE
    IN  OrElse(HandleProps[t].boundaryWidth, params.maxWidth)

\* C34: snapWidth returns the proposed width unchanged when gridPercent,
\* clamped to [1, 100], is 100, and otherwise the multiple of
\* step = gridPercent/100 * boundaryWidth nearest to it, for a positive
\* boundaryWidth; every pointer-move snaps its proposed width so and clamps
\* the snapped width, not the proposed one, to [minWidth, maxWidth].
C34_GridSnap ==
    /\ \A p \in SnapProposals : \A b \in SnapBoundaries :
           SnappedAsSaid(snapWidth(p, b), p, b)
    /\ \A i \in 1..Len(drag.moves) :
           LET m == drag.moves[i]
           IN  /\ SnappedAsSaid(m.snapped, m.proposed, BoundaryInUse)
               /\ m.next.width = Min(params.maxWidth, Max(params.minWidth, m.snapped))

\* the examples of the claim, step 125: a drag proposing 270 is snapped to
\* 250 and leaves the width 250, and 300 snaps to 250 as well
C34_Witness ==
    /\ params.gridPercent = 25
    /\ dragOp.name = "move" /\ dragOp.wasResizing
    /\ BoundaryInUse = Px(500)
    /\ Len(drag.moves) = 1
    /\ drag.moves[1].proposed = Px(270)
    /\ drag.moves[1].snapped = Px(250)
    /\ currentWidth = Px(250)
    /\ snapWidth(Px(300), Px(500)) = Px(250)

\* C35: every pointer-up that a session's up handler handles releases the
\* capture on that handler's own target and pointer id, and whenever the
\* controller is back in Idle after a pointer-up no capture acquired at a
\* pointer-down is still held, also when a second pointer-down arrived during
\* an active session.
C35_NoCaptureHeldWhenIdle ==
    (dragOp.name = "up" /\ drag.mounted /\ ~drag.isResizing) => drag.captured = {}

\* C36: the onDimensionsChange invoked by a live frame notification or at
\* pointer-up is the callback supplied in the most recent render, also when
\* the callback changed identity after the pointer-down that registered the
\* listeners.
C36_CallsCallbackOfLatestRender ==
    \A i \in 1..Len(drag.notified) :
        drag.notified[i].callback = drag.onDimensionsChange

\* the elements of the document
Nodes == DOMAIN parentElement

\* the ancestors of element n, nearest first
RECURSIVE AncestorsOf(_)
AncestorsOf(n) ==
    IF IsSome(parentElement[n])
    THEN <<Val(parentElement[n])>> \o AncestorsOf(Val(parentElement[n]))
    ELSE <<>>

\* the ancestors of n below the document body; none when n is not inside body
BetweenBody(n) ==
    LET A == AncestorsOf(n)
    IN  IF \E i \in 1..Len(A) : A[i] = "body"
        THEN SubSeq(A, 1, (CHOOSE i \in 1..Len(A) : A[i] = "body") - 1)
        ELSE <<>>

\* the ancestors of n below the document body, or all of them when n is not
\* inside body
BelowBodyOrAll(n) ==
    LET A == AncestorsOf(n)
    IN  IF \E i \in 1..Len(A) : A[i] = "body" THEN BetweenBody(n) ELSE A

ScrollsEitherWay(n) ==
    \/ getComputedStyle(n).overflowX \in {"auto", "scroll", "overlay"}
    \/ getComputedStyle(n).overflowY \in {"auto", "scroll", "overlay"}

\* the scroll parents of an optional element, given which of its ancestors
\* are looked at
ScrollParentsAmong(el, among(_)) ==
    IF IsSome(el)
    THEN SelectSeq(among(Val(el)), ScrollsEitherWay) \o <<Window>>
    ELSE <<Window>>

OptionalNodes == {None} \cup {Some(n) : n \in Nodes}

\* C37 as stated: for every element, and for no element, getScrollParents
\* lists, nearest first, exactly the ancestors strictly between the element
\* and the document body that scroll in x or y, then the window, once.
C37_BetweenElementAndBody ==
    /\ \A el \in OptionalNodes :
            getScrollParents(el) = ScrollParentsAmong(el, BetweenBody)
    /\ (options.trackPosition /\ IsSome(tracker.nodeRef)) =>
            \A t \in ScrollTargets :
                (tracker.scrollListeners[t] # <<>>) <=>
                    (\E i \in 1..Len(ScrollParentsAmong(tracker.nodeRef, BetweenBody)) :
                        ScrollParentsAmong(tracker.nodeRef, BetweenBody)[i] = t)

\* C37 amended: for every element, and for no element, getScrollParents
\* lists, nearest first, exactly the ancestors that scroll in x or y among
\* those strictly between the element and the document body, or among all
\* of its ancestors when the element is not inside the body (the body
\* itself, the root element), then the window, once.
C37_UpToBodyOrRoot ==
    /\ \A el \in OptionalNodes :
            /\ getScrollParents(el) = ScrollParentsAmong(el, BelowBodyOrAll)
            /\ Cardinality({i \in 1..Len(getScrollParents(el)) :
                                getScrollParents(el)[i] = Window}) = 1
    /\ (options.trackPosition /\ IsSome(tracker.nodeRef)) =>
            \A t \in ScrollTargets :
                (tracker.scrollListeners[t] # <<>>) <=>
                    (\E i \in 1..Len(ScrollParentsAmong(tracker.nodeRef, BelowBodyOrAll)) :
                        ScrollParentsAmong(tracker.nodeRef, BelowBodyOrAll)[i] = t)

\* the tracker is attached to e2 and listens for scrolls on what
\* getScrollParents returned for it: the horizontally scrolling container
\* and the window
C37_Witness ==
    /\ options.trackPosition
    /\ tracker.nodeRef = Some("e2")
    /\ getScrollParents(Some("e2")) = <<"s2", Window>>
    /\ getScrollParents(Some("e3")) = <<"s3", "s1", Window>>
    /\ tracker.scrollListeners["s2"] # <<>>
    /\ tracker.scrollListeners[Window] # <<>>
    /\ tracker.scrollListeners["s1"] = <<>>

\* the body element is given: the scrolling root element above it is listed
C37_RootListedForBody ==
    /\ trackOp.name = "attach"
    /\ getScrollParents(Some("body")) = <<"html", Window>>

\* C38: with delay > 0 every execution uses the arguments of a run call made
\* after the execution before it, so the arguments of one run call are
\* passed to the callback at most once and a lone leading execution is
\* never followed by a trailing execution of the same call, under any
\* sequence of run, flush and cancel.
C38_ArgumentsExecutedOnce ==
    throttleOptions.delay > 0 =>
        \A i \in 1..Len(throttle.execs) :
            throttle.execs[i].args > throttle.execs[i].runsBefore

\* a trailing execution follows a leading one, each with the arguments of
\* its own run call, and a later flush finds nothing to execute
C38_Witness ==
    /\ throttleOptions.delay > 0
    /\ throttleOptions.leading /\ throttleOptions.trailing
    /\ throttleOp.name = "flush"
    /\ throttle.execs = <<>>
    /\ throttle.lastArgsRef = Some(2)
    /\ throttle.lastExecRuns = 2
    /\ throttle.runs = 2
    /\ ~throttle.cancelled

\* a run call has just been made with trailing on and a positive delay
TrailingRunMade ==
    /\ throttleOp.name = "run"
    /\ throttleOptions.trailing
    /\ throttleOptions.delay > 0

\* the step executed the callback with the arguments of the latest run call
ExecutedLatestArgs ==
    /\ throttle.execs # <<>>
    /\ throttle.execs[Len(throttle.execs)].args = throttle.runs

\* C39: with trailing on and a positive delay, after any run call the
\* callback is eventually executed with the arguments of the most recent run
\* call, unless cancel or the unmount intervenes, given that timers
\* eventually fire; for both values of leading, also when run calls keep
\* arriving at window boundaries.
C39_EventuallyExecuted ==
    TrailingRunMade ~> (ExecutedLatestArgs \/ throttleOp.name \in {"cancel", "unmount"})

\* the same with leading on
C39_EventuallyExecutedLeading ==
    (TrailingRunMade /\ throttleOptions.leading)
        ~> (ExecutedLatestArgs \/ throttleOp.name \in {"cancel", "unmount"})

\* an element is attached and the step delivered a resize notification, a
\* window resize or a scroll to a listener of the tracker
ChangeNotified ==
    /\ IsSome(tracker.nodeRef)
    /\ \/ trackOp.name = "resize-notification"
       \/ trackOp.name \in {"window-resize", "scroll"} /\ trackOp.ran > 0

\* the step was an animation frame that measured the attached element
MeasuredInFrame ==
    /\ trackOp.name = "frame"
    /\ tracker.measures # <<>>
    /\ tracker.measures[Len(tracker.measures)].el = Val(tracker.nodeRef)
    /\ tracker.measures[Len(tracker.measures)].r = getBoundingClientRect(Val(tracker.nodeRef))

\* C40: while an element stays attached, every change notification (resize
\* notification, window resize, tracked scroll) is eventually followed by a
\* measurement taken at or after it, given that frames eventually fire;
\* cancelling and replacing the pending request, and a request id left over
\* from a frame that has run, lose no notification.
C40_NotificationMeasured ==
    ChangeNotified ~> (MeasuredInFrame \/ trackOp.name \in {"attach", "unmount"})

\* a frame measures for a request that was made while rafIdRef still held
\* the id of a frame that had run
C40_Witness ==
    /\ trackOp.name = "frame"
    /\ IsSome(tracker.nodeRef)
    /\ tracker.measures # <<>>
    /\ tracker.flushed = 1
    /\ tracker.rafIdRef = Some(2)

=============================================================================
